---- MODULE Spec2Model ----
(***************************************************************************)
(* State-machine model of the multi-index storage engine: the clustered    *)
(* and unclustered B+ trees, the extendible hash, the ISAM file, the       *)
(* sequential file and the DatabaseManager that keeps them together.       *)
(*                                                                         *)
(* Every index is modelled as the content of its files plus the fields of  *)
(* the Python object; an operation is a function from that state to the    *)
(* new state and the value returned (or the exception raised).  Writes     *)
(* made before an exception stay in the new state.                         *)
(*                                                                         *)
(* The program's capacities (order = 50, BLOCK_FACTOR = 30 / 20, k = 10)   *)
(* are scaled down so that splits, merges and rebuilds happen with a       *)
(* handful of keys; the algorithms are those of the source.                *)
(***************************************************************************)
EXTENDS Integers, Sequences, FiniteSets, TLC

VARIABLES bpc,      \* BPlusTreeClusteredIndex: node file and object fields
          bpu,      \* BPlusTreeUnclusteredIndex: node file and object fields
          eh,       \* ExtendibleHashing: directory file, bucket file, object fields
          isam,     \* ISAMPrimaryIndex: data, leaf index, root index and free list files
          sf,       \* SequentialFile: main file, auxiliary file and object fields
          db,       \* DatabaseManager: one table, its primary and secondary indexes
          perf,     \* PerformanceTracker: counters, start time and operation stack
          calls,    \* history: the number of calls made, where the run is capped by it
          live,     \* history: records (or entries) inserted and not deleted since
          last      \* history: the last call, its argument and its outcome

vars == <<bpc, bpu, eh, isam, sf, db, perf, calls, live, last>>

(***************************************************************************)
(* Bounds of the exploration.                                              *)
(***************************************************************************)
MaxKey == 5

\* node ids are never reused: inserts stop once this many were allocated
MaxNodeId == 9

\* the same cap for the unclustered tree, whose states are more numerous
MaxNodeIdU == 5

Keys == 1..MaxKey

(***************************************************************************)
(* Python list helpers; positions are 0-based as in the source.            *)
(***************************************************************************)
At(s, pos) == s[pos + 1]

InsertAt(s, pos, x) ==
    SubSeq(s, 1, pos) \o <<x>> \o SubSeq(s, pos + 1, Len(s))

PopAt(s, pos) ==
    SubSeq(s, 1, pos) \o SubSeq(s, pos + 2, Len(s))

SliceFrom(s, pos) == SubSeq(s, pos + 1, Len(s))

SliceTo(s, pos) == SubSeq(s, 1, pos)

IndexOf(s, x) ==
    IF \E i \in 1..Len(s) : s[i] = x
    THEN (CHOOSE i \in 1..Len(s) : s[i] = x /\ \A j \in 1..(i - 1) : s[j] # x) - 1
    ELSE -1

RECURSIVE BisectLeftFrom(_, _, _, _)
BisectLeftFrom(a, x, lo, hi) ==
    IF lo < hi
    THEN LET mid == (lo + hi) \div 2
         IN  IF At(a, mid) < x
             THEN BisectLeftFrom(a, x, mid + 1, hi)
             ELSE BisectLeftFrom(a, x, lo, mid)
    ELSE lo

bisect_left(a, x) == BisectLeftFrom(a, x, 0, Len(a))

RECURSIVE BisectRightFrom(_, _, _, _)
BisectRightFrom(a, x, lo, hi) ==
    IF lo < hi
    THEN LET mid == (lo + hi) \div 2
         IN  IF x < At(a, mid)
             THEN BisectRightFrom(a, x, lo, mid)
             ELSE BisectRightFrom(a, x, mid + 1, hi)
    ELSE lo

bisect_right(a, x) == BisectRightFrom(a, x, 0, Len(a))

(***************************************************************************)
(* B+ tree nodes.  A leaf holds items (the clustered tree: whole records;  *)
(* the unclustered tree: (key, pk) entries); its keys are the items' keys. *)
(* kind "tomb" is a zeroed block, kind "none" is Python's None.            *)
(***************************************************************************)
NULL_NODE_ID == -1

FIRST_DATA_NODE_ID == 1

NoneNode ==
    [kind |-> "none", id |-> NULL_NODE_ID, parent |-> NULL_NODE_ID, keys |-> <<>>,
     items |-> <<>>, children |-> <<>>, prev |-> NULL_NODE_ID, next |-> NULL_NODE_ID]

TombNode == [NoneNode EXCEPT !.kind = "tomb"]

LeafNode(id, parent, prev, next, items) ==
    [kind |-> "leaf", id |-> id, parent |-> parent,
     keys |-> [i \in 1..Len(items) |-> items[i].key],
     items |-> items, children |-> <<>>, prev |-> prev, next |-> next]

InternalNode(id, parent, keys, children) ==
    [kind |-> "internal", id |-> id, parent |-> parent, keys |-> keys,
     items |-> <<>>, children |-> children,
     prev |-> NULL_NODE_ID, next |-> NULL_NODE_ID]

WithItems(leaf, items) ==
    [leaf EXCEPT !.items = items,
                 !.keys = [i \in 1..Len(items) |-> items[i].key]]

is_full(node, max_keys) == Len(node.keys) >= max_keys

is_underflow(node, min_keys) == Len(node.keys) < min_keys

max_keys(t) == t.order - 1

min_keys(t) == (t.order + 1) \div 2 - 1

\* _read_node: None for id None / 0, for a block past the end of the file and
\* for a block whose first two bytes are zero.  Byte 0 is the is_leaf flag and
\* byte 1 the low byte of num_keys, so an internal node whose key count is a
\* multiple of 256 (an internal node without keys) reads as None too.
_read_node(t, node_id) ==
    IF node_id = NULL_NODE_ID \/ node_id = 0 \/ node_id > Len(t.nodes)
    THEN NoneNode
    ELSE LET n == t.nodes[node_id]
         IN  IF n.kind = "tomb" THEN NoneNode
             ELSE IF n.kind = "internal" /\ Len(n.keys) % 256 = 0 THEN NoneNode
             ELSE n

\* _write_node: the file grows with zeroed blocks up to the written block.
_write_node(t, node_id, node) ==
    LET grown == [i \in 1..(IF node_id > Len(t.nodes) THEN node_id ELSE Len(t.nodes)) |->
                    IF i <= Len(t.nodes) THEN t.nodes[i] ELSE TombNode]
    IN  [t EXCEPT !.nodes = [grown EXCEPT ![node_id] = node]]

_mark_node_as_deleted(t, node_id) ==
    IF node_id <= Len(t.nodes)
    THEN [t EXCEPT !.nodes[node_id] = TombNode]
    ELSE t

_allocate_node_id(t) == [t EXCEPT !.next = t.next + 1, !.dirty = TRUE]

_flush_metadata_if_needed(t) == [t EXCEPT !.dirty = FALSE]

Raise(t, e) == [t EXCEPT !.err = e]

\* BPlusTreeClusteredIndex.__init__ with _initialize_new_tree
NewClusteredTree(order) ==
    [order |-> order,
     nodes |-> <<LeafNode(FIRST_DATA_NODE_ID, NULL_NODE_ID, NULL_NODE_ID, NULL_NODE_ID, <<>>)>>,
     root |-> FIRST_DATA_NODE_ID, next |-> 2, dirty |-> FALSE, err |-> "",
     uncl |-> FALSE]

\* _find_leaf_for_key: the leaf, or NoneNode when `current.keys` raises
RECURSIVE FindLeafFrom(_, _, _)
FindLeafFrom(t, current_id, key) ==
    LET current == _read_node(t, current_id)
    IN  IF current.kind = "leaf" THEN current
        ELSE IF current.kind = "none" THEN NoneNode
        ELSE FindLeafFrom(t, At(current.children, bisect_right(current.keys, key)), key)

_find_leaf_for_key(t, key) == FindLeafFrom(t, t.root, key)

(***************************************************************************)
(* Insertion.  Field uncl of the tree tells the unclustered tree, whose    *)
(* code is the clustered tree's except where noted.                        *)
(***************************************************************************)
\* the re-parenting loops of _split_internal_node and of the internal merges
RECURSIVE ReparentChildren(_, _, _, _)
ReparentChildren(t, children, i, parent_id) ==
    IF t.err # "" \/ i > Len(children) THEN t
    ELSE LET child == _read_node(t, children[i])
         IN  IF child.kind = "none" THEN Raise(t, "AttributeError")
             ELSE ReparentChildren(
                      _write_node(t, children[i], [child EXCEPT !.parent = parent_id]),
                      children, i + 1, parent_id)

\* the split point of the unclustered _split_leaf_node: the loop that moves
\* mid right past keys equal to the split key
RECURSIVE AdvanceMid(_, _, _, _)
AdvanceMid(keys, mid, split_key, mk) ==
    IF mid < Len(keys) - 1 /\ At(keys, mid) = split_key
    THEN IF Len(keys) - (mid + 1) >= mk
         THEN AdvanceMid(keys, mid + 1, split_key, mk)
         ELSE mid
    ELSE mid

LeafSplitPoint(t, keys) ==
    LET half == Len(keys) \div 2
    IN  IF ~t.uncl THEN half
        ELSE LET mid0 == IF half < min_keys(t) THEN min_keys(t)
                         ELSE IF Len(keys) - half < min_keys(t)
                              THEN Len(keys) - min_keys(t)
                              ELSE half
             IN  AdvanceMid(keys, mid0, At(keys, mid0), min_keys(t))

RECURSIVE _promote_key_to_parent(_, _, _, _)
RECURSIVE _split_internal_node(_, _)

_split_internal_node(t, internal) ==
    IF t.err # "" THEN t
    ELSE
    LET new_id == t.next
        t1 == _allocate_node_id(t)
        mid == Len(internal.keys) \div 2
        promote_key == At(internal.keys, mid)
        new_internal == InternalNode(new_id, internal.parent,
                                     SliceFrom(internal.keys, mid + 1),
                                     SliceFrom(internal.children, mid + 1))
        internal1 == [internal EXCEPT !.keys = SliceTo(internal.keys, mid),
                                      !.children = SliceTo(internal.children, mid + 1)]
        t2 == ReparentChildren(t1, new_internal.children, 1, new_id)
        t3 == IF t.uncl THEN ReparentChildren(t2, internal1.children, 1, internal1.id)
              ELSE t2
    IN  IF t3.err # "" THEN t3
        ELSE _promote_key_to_parent(
                 _write_node(_write_node(t3, internal1.id, internal1), new_id, new_internal),
                 internal1, promote_key, new_id)

_promote_key_to_parent(t, left_child, key, right_child_id) ==
    IF t.err # "" THEN t
    ELSE IF left_child.parent = NULL_NODE_ID
    THEN LET new_root_id == t.next
             t1 == _allocate_node_id(t)
             new_root == InternalNode(new_root_id, NULL_NODE_ID, <<key>>,
                                      <<left_child.id, right_child_id>>)
             left1 == [left_child EXCEPT !.parent = new_root_id]
             right_child == _read_node(t1, right_child_id)
         IN  IF right_child.kind = "none" THEN Raise(t1, "AttributeError")
             ELSE LET t2 == _write_node(t1, left1.id, left1)
                      t3 == _write_node(t2, right_child_id,
                                        [right_child EXCEPT !.parent = new_root_id])
                      t4 == _write_node(t3, new_root_id, new_root)
                  IN  [t4 EXCEPT !.root = new_root_id, !.dirty = TRUE]
    ELSE LET parent == _read_node(t, left_child.parent)
         IN  IF parent.kind # "internal" THEN Raise(t, "ValueError")
             ELSE LET pos == bisect_left(parent.keys, key)
                      parent1 == [parent EXCEPT
                                    !.keys = InsertAt(parent.keys, pos, key),
                                    !.children = InsertAt(parent.children, pos + 1,
                                                          right_child_id)]
                      right_child == _read_node(t, right_child_id)
                  IN  IF right_child.kind = "none" THEN Raise(t, "AttributeError")
                      ELSE LET t1 == _write_node(t, right_child_id,
                                         [right_child EXCEPT !.parent = parent.id])
                               t2 == _write_node(t1, left_child.id, left_child)
                               t3 == _write_node(t2, parent.id, parent1)
                           IN  IF is_full(parent1, max_keys(t))
                               THEN _split_internal_node(t3, parent1)
                               ELSE t3

_split_leaf_node(t, leaf) ==
    LET new_id == t.next
        t1 == _allocate_node_id(t)
        mid == LeafSplitPoint(t, leaf.keys)
        new_leaf == LeafNode(new_id, leaf.parent, leaf.id, leaf.next,
                             SliceFrom(leaf.items, mid))
        leaf1 == WithItems([leaf EXCEPT !.next = new_id], SliceTo(leaf.items, mid))
        next_leaf == _read_node(t1, new_leaf.next)
        t2 == IF new_leaf.next = NULL_NODE_ID THEN t1
              ELSE IF next_leaf.kind = "none"
                   THEN (IF t.uncl THEN t1 ELSE Raise(t1, "AttributeError"))
                   ELSE _write_node(t1, next_leaf.id, [next_leaf EXCEPT !.prev = new_id])
    IN  IF t2.err # "" THEN t2
        ELSE _promote_key_to_parent(
                 _write_node(_write_node(t2, leaf1.id, leaf1), new_id, new_leaf),
                 leaf1, At(new_leaf.keys, 0), new_id)

\* clustered _insert_into_leaf: a duplicate key raises ValueError
_insert_into_leaf(t, leaf, item) ==
    LET pos == bisect_left(leaf.keys, item.key)
    IN  IF pos < Len(leaf.keys) /\ At(leaf.keys, pos) = item.key
        THEN Raise(t, "ValueError")
        ELSE LET leaf1 == WithItems(leaf, InsertAt(leaf.items, pos, item))
                 t1 == _write_node(t, leaf.id, leaf1)
             IN  IF is_full(leaf1, max_keys(t)) THEN _split_leaf_node(t1, leaf1) ELSE t1

\* _insert_into_tree with _insert_into_internal: the descent to the leaf
RECURSIVE DescendToLeaf(_, _, _)
DescendToLeaf(t, node_id, key) ==
    LET node == _read_node(t, node_id)
    IN  IF node.kind = "internal"
        THEN DescendToLeaf(t, At(node.children, bisect_right(node.keys, key)), key)
        ELSE node

_insert_into_tree(t, node_id, item) ==
    LET leaf == DescendToLeaf(t, node_id, item.key)
    IN  IF leaf.kind = "none" THEN Raise(t, "AttributeError")
        ELSE _insert_into_leaf(t, leaf, item)

\* an operation's outcome: the new state, the data of the OperationResult
\* and the exception that left the call, if any
Outcome(t, data) == [t |-> [t EXCEPT !.err = ""], data |-> data, raised |-> ""]

Raised(t, e) == [t |-> [t EXCEPT !.err = ""], data |-> FALSE, raised |-> e]

\* BPlusTreeClusteredIndex.insert: only ValueError is caught
BPC_insert(t, record) ==
    LET t1 == _insert_into_tree(t, t.root, record)
    IN  IF t1.err = "" THEN Outcome(_flush_metadata_if_needed(t1), TRUE)
        ELSE IF t1.err = "ValueError" THEN Outcome(t1, FALSE)
        ELSE Raised(t1, t1.err)


(***************************************************************************)
(* Deletion: borrow from or merge with a sibling, up to the root.          *)
(***************************************************************************)
SetAt(s, pos, x) == [s EXCEPT ![pos + 1] = x]

Last(s) == s[Len(s)]

ButLast(s) == SubSeq(s, 1, Len(s) - 1)

_borrow_from_left_leaf(t, leaf, left_sibling, parent, leaf_index) ==
    LET left1 == WithItems(left_sibling, ButLast(left_sibling.items))
        leaf1 == WithItems(leaf, <<Last(left_sibling.items)>> \o leaf.items)
        parent1 == [parent EXCEPT !.keys = SetAt(parent.keys, leaf_index - 1, At(leaf1.keys, 0))]
    IN  _write_node(_write_node(_write_node(t, left1.id, left1), leaf1.id, leaf1),
                    parent1.id, parent1)

_borrow_from_right_leaf(t, leaf, right_sibling, parent, leaf_index) ==
    LET right1 == WithItems(right_sibling, Tail(right_sibling.items))
        leaf1 == WithItems(leaf, Append(leaf.items, Head(right_sibling.items)))
    IN  IF Len(right1.keys) = 0 THEN Raise(t, "IndexError")
        ELSE LET parent1 == [parent EXCEPT
                               !.keys = SetAt(parent.keys, leaf_index, At(right1.keys, 0))]
             IN  _write_node(_write_node(_write_node(t, right1.id, right1), leaf1.id, leaf1),
                             parent1.id, parent1)

_borrow_from_left_internal(t, internal, left_sibling, parent, internal_index) ==
    LET separator_key == At(parent.keys, internal_index - 1)
        borrowed_child_id == Last(left_sibling.children)
        internal1 == [internal EXCEPT !.keys = <<separator_key>> \o internal.keys,
                                      !.children = <<borrowed_child_id>> \o internal.children]
        borrowed_child == _read_node(t, borrowed_child_id)
        left1 == [left_sibling EXCEPT !.keys = ButLast(left_sibling.keys),
                                      !.children = ButLast(left_sibling.children)]
        parent1 == [parent EXCEPT
                      !.keys = SetAt(parent.keys, internal_index - 1, Last(left_sibling.keys))]
    IN  IF borrowed_child.kind = "none" THEN Raise(t, "AttributeError")
        ELSE LET t1 == _write_node(t, borrowed_child_id,
                                   [borrowed_child EXCEPT !.parent = internal.id])
             IN  _write_node(_write_node(_write_node(t1, left1.id, left1),
                                         internal1.id, internal1),
                             parent1.id, parent1)

_borrow_from_right_internal(t, internal, right_sibling, parent, internal_index) ==
    LET separator_key == At(parent.keys, internal_index)
        borrowed_child_id == Head(right_sibling.children)
        internal1 == [internal EXCEPT !.keys = Append(internal.keys, separator_key),
                                      !.children = Append(internal.children, borrowed_child_id)]
        borrowed_child == _read_node(t, borrowed_child_id)
        right1 == [right_sibling EXCEPT !.keys = Tail(right_sibling.keys),
                                        !.children = Tail(right_sibling.children)]
        parent1 == [parent EXCEPT
                      !.keys = SetAt(parent.keys, internal_index, Head(right_sibling.keys))]
    IN  IF borrowed_child.kind = "none" THEN Raise(t, "AttributeError")
        ELSE LET t1 == _write_node(t, borrowed_child_id,
                                   [borrowed_child EXCEPT !.parent = internal.id])
             IN  _write_node(_write_node(_write_node(t1, right1.id, right1),
                                         internal1.id, internal1),
                             parent1.id, parent1)

RECURSIVE _handle_internal_underflow(_, _)
RECURSIVE _merge_internal_with_left(_, _, _, _, _)
RECURSIVE _merge_internal_with_right(_, _, _, _, _)

\* the tail shared by the four merges: the parent lost a child and a key
AfterMerge(t, parent) ==
    IF t.err = "" /\ parent.id # t.root /\ is_underflow(parent, min_keys(t))
    THEN _handle_internal_underflow(t, parent)
    ELSE t

_merge_internal_with_left(t, internal, left_sibling, parent, internal_index) ==
    LET separator_key == At(parent.keys, internal_index - 1)
        left1 == [left_sibling EXCEPT
                    !.keys = Append(left_sibling.keys, separator_key) \o internal.keys,
                    !.children = left_sibling.children \o internal.children]
        t1 == ReparentChildren(t, internal.children, 1, left_sibling.id)
        parent1 == [parent EXCEPT !.children = PopAt(parent.children, internal_index),
                                  !.keys = PopAt(parent.keys, internal_index - 1)]
    IN  IF t1.err # "" THEN t1
        ELSE AfterMerge(
                 _mark_node_as_deleted(
                     _write_node(_write_node(t1, left1.id, left1), parent1.id, parent1),
                     internal.id),
                 parent1)

_merge_internal_with_right(t, internal, right_sibling, parent, internal_index) ==
    LET separator_key == At(parent.keys, internal_index)
        internal1 == [internal EXCEPT
                        !.keys = Append(internal.keys, separator_key) \o right_sibling.keys,
                        !.children = internal.children \o right_sibling.children]
        t1 == ReparentChildren(t, right_sibling.children, 1, internal.id)
        parent1 == [parent EXCEPT !.children = PopAt(parent.children, internal_index + 1),
                                  !.keys = PopAt(parent.keys, internal_index)]
    IN  IF t1.err # "" THEN t1
        ELSE AfterMerge(
                 _mark_node_as_deleted(
                     _write_node(_write_node(t1, internal1.id, internal1), parent1.id, parent1),
                     right_sibling.id),
                 parent1)

_handle_internal_underflow(t, internal) ==
    IF internal.parent = NULL_NODE_ID THEN t
    ELSE
    LET parent == _read_node(t, internal.parent)
        internal_index == IndexOf(parent.children, internal.id)
        left_sibling == _read_node(t, At(parent.children, internal_index - 1))
        right_sibling == _read_node(t, At(parent.children, internal_index + 1))
        has_right == internal_index < Len(parent.children) - 1
    IN  IF parent.kind = "none" THEN Raise(t, "AttributeError")
        ELSE IF internal_index = -1 THEN Raise(t, "ValueError")
        ELSE IF internal_index > 0 /\ left_sibling.kind = "internal"
                /\ Len(left_sibling.keys) > min_keys(t)
        THEN _borrow_from_left_internal(t, internal, left_sibling, parent, internal_index)
        ELSE IF has_right /\ right_sibling.kind = "internal"
                /\ Len(right_sibling.keys) > min_keys(t)
        THEN _borrow_from_right_internal(t, internal, right_sibling, parent, internal_index)
        ELSE IF internal_index > 0
        THEN IF left_sibling.kind = "internal"
             THEN _merge_internal_with_left(t, internal, left_sibling, parent, internal_index)
             ELSE t
        ELSE IF ~has_right THEN Raise(t, "IndexError")
        ELSE IF right_sibling.kind = "internal"
             THEN _merge_internal_with_right(t, internal, right_sibling, parent, internal_index)
             ELSE t

\* the leaf-chain repair of the leaf merges: the leaf after the removed one
\* gets its prev pointer set to the surviving leaf
RelinkNext(t, next_id, survivor_id) ==
    IF next_id = NULL_NODE_ID THEN t
    ELSE LET next_leaf == _read_node(t, next_id)
         IN  IF next_leaf.kind = "none"
             THEN (IF t.uncl THEN t ELSE Raise(t, "AttributeError"))
             ELSE _write_node(t, next_leaf.id, [next_leaf EXCEPT !.prev = survivor_id])

_merge_leaf_with_left(t, leaf, left_sibling, parent, leaf_index) ==
    LET left1 == WithItems([left_sibling EXCEPT !.next = leaf.next],
                           left_sibling.items \o leaf.items)
        t1 == RelinkNext(t, leaf.next, left_sibling.id)
        parent1 == [parent EXCEPT !.children = PopAt(parent.children, leaf_index),
                                  !.keys = PopAt(parent.keys, leaf_index - 1)]
    IN  IF t1.err # "" THEN t1
        ELSE AfterMerge(
                 _mark_node_as_deleted(
                     _write_node(_write_node(t1, left1.id, left1), parent1.id, parent1),
                     leaf.id),
                 parent1)

_merge_leaf_with_right(t, leaf, right_sibling, parent, leaf_index) ==
    LET leaf1 == WithItems([leaf EXCEPT !.next = right_sibling.next],
                           leaf.items \o right_sibling.items)
        t1 == RelinkNext(t, right_sibling.next, leaf.id)
        parent1 == [parent EXCEPT !.children = PopAt(parent.children, leaf_index + 1),
                                  !.keys = PopAt(parent.keys, leaf_index)]
    IN  IF t1.err # "" THEN t1
        ELSE AfterMerge(
                 _mark_node_as_deleted(
                     _write_node(_write_node(t1, leaf1.id, leaf1), parent1.id, parent1),
                     right_sibling.id),
                 parent1)

_handle_leaf_underflow(t, leaf) ==
    IF leaf.parent = NULL_NODE_ID THEN t
    ELSE
    LET parent == _read_node(t, leaf.parent)
        leaf_index == IndexOf(parent.children, leaf.id)
        left_sibling == _read_node(t, At(parent.children, leaf_index - 1))
        right_sibling == _read_node(t, At(parent.children, leaf_index + 1))
        has_right == leaf_index < Len(parent.children) - 1
    IN  IF parent.kind = "none" THEN Raise(t, "AttributeError")
        ELSE IF leaf_index = -1 THEN Raise(t, "ValueError")
        ELSE IF leaf_index > 0 /\ left_sibling.kind = "leaf"
                /\ Len(left_sibling.keys) > min_keys(t)
        THEN _borrow_from_left_leaf(t, leaf, left_sibling, parent, leaf_index)
        ELSE IF has_right /\ right_sibling.kind = "leaf"
                /\ Len(right_sibling.keys) > min_keys(t)
        THEN _borrow_from_right_leaf(t, leaf, right_sibling, parent, leaf_index)
        ELSE IF leaf_index > 0
        THEN IF left_sibling.kind = "leaf"
             THEN _merge_leaf_with_left(t, leaf, left_sibling, parent, leaf_index)
             ELSE t
        ELSE IF ~has_right THEN Raise(t, "IndexError")
        ELSE IF right_sibling.kind = "leaf"
             THEN _merge_leaf_with_right(t, leaf, right_sibling, parent, leaf_index)
             ELSE t

_reduce_tree_height_if_needed(t) ==
    LET root == _read_node(t, t.root)
    IN  IF t.err = "" /\ root.kind = "internal" /\ Len(root.keys) = 0
           /\ Len(root.children) > 0
        THEN LET new_root_id == At(root.children, 0)
                 new_root == _read_node(t, new_root_id)
             IN  IF new_root.kind = "none" THEN Raise(t, "AttributeError")
                 ELSE _mark_node_as_deleted(
                          [_write_node(t, new_root_id,
                                       [new_root EXCEPT !.parent = NULL_NODE_ID])
                             EXCEPT !.root = new_root_id, !.dirty = TRUE],
                          root.id)
        ELSE t

\* BPlusTreeClusteredIndex.delete: nothing is caught
BPC_delete(t, key) ==
    LET leaf == _find_leaf_for_key(t, key)
        pos == bisect_left(leaf.keys, key)
    IN  IF leaf.kind = "none" THEN Raised(t, "AttributeError")
        ELSE IF pos >= Len(leaf.keys) \/ At(leaf.keys, pos) # key THEN Outcome(t, FALSE)
        ELSE LET leaf1 == WithItems(leaf, PopAt(leaf.items, pos))
                 t1 == _write_node(t, leaf.id, leaf1)
                 t2 == IF leaf.id # t.root /\ is_underflow(leaf1, min_keys(t))
                       THEN _handle_leaf_underflow(t1, leaf1)
                       ELSE t1
                 t3 == _reduce_tree_height_if_needed(t2)
             IN  IF t3.err # "" THEN Raised(t3, t3.err)
                 ELSE Outcome(_flush_metadata_if_needed(t3), TRUE)


(***************************************************************************)
(* Queries of the clustered tree: [data, raised].                          *)
(***************************************************************************)
Found(data) == [data |-> data, raised |-> ""]

Threw(e) == [data |-> <<>>, raised |-> e]

NoRecord == [key |-> 0, name |-> 0, city |-> 0]

BPC_search(t, key) ==
    LET leaf == _find_leaf_for_key(t, key)
        pos == bisect_left(leaf.keys, key)
    IN  IF leaf.kind = "none" THEN Threw("AttributeError")
        ELSE IF pos < Len(leaf.keys) /\ At(leaf.keys, pos) = key
             THEN Found(<<At(leaf.items, pos)>>)
             ELSE Found(<<>>)

\* the for loop of range_search over one leaf, from position pos:
\* [out, done] where done tells that a key above end_key ended the search
RECURSIVE RangeInLeaf(_, _, _, _, _)
RangeInLeaf(leaf, i, start_key, end_key, out) ==
    IF i >= Len(leaf.keys) THEN [out |-> out, done |-> FALSE]
    ELSE IF At(leaf.keys, i) > end_key THEN [out |-> out, done |-> TRUE]
    ELSE RangeInLeaf(leaf, i + 1, start_key, end_key,
                     IF At(leaf.keys, i) >= start_key
                     THEN Append(out, At(leaf.items, i)) ELSE out)

RECURSIVE RangeWalk(_, _, _, _, _, _, _)
RangeWalk(t, leaf, pos, start_key, end_key, out, fuel) ==
    IF leaf.kind = "none" \/ fuel = 0 THEN Found(out)
    ELSE IF leaf.kind = "internal" THEN Threw("AttributeError")
    ELSE LET r == RangeInLeaf(leaf, pos, start_key, end_key, out)
         IN  IF r.done \/ leaf.next = NULL_NODE_ID THEN Found(r.out)
             ELSE RangeWalk(t, _read_node(t, leaf.next), 0, start_key, end_key,
                            r.out, fuel - 1)

BPC_range_search(t, start_key, end_key) ==
    LET leaf == _find_leaf_for_key(t, start_key)
    IN  IF leaf.kind = "none" THEN Threw("AttributeError")
        ELSE RangeWalk(t, leaf, bisect_left(leaf.keys, start_key), start_key, end_key,
                       <<>>, Len(t.nodes) + 1)

RECURSIVE LeftmostFrom(_, _, _)
LeftmostFrom(t, current, fuel) ==
    IF current.kind = "internal" /\ Len(current.children) > 0 /\ fuel > 0
    THEN LeftmostFrom(t, _read_node(t, At(current.children, 0)), fuel - 1)
    ELSE current

RECURSIVE ChainFrom(_, _, _, _)
ChainFrom(t, current, out, fuel) ==
    IF current.kind # "leaf" \/ fuel = 0 THEN out
    ELSE ChainFrom(t, _read_node(t, current.next), out \o current.items, fuel - 1)

BPC_scan_all(t) ==
    ChainFrom(t, LeftmostFrom(t, _read_node(t, t.root), Len(t.nodes) + 1), <<>>,
              Len(t.nodes) + 1)

(***************************************************************************)
(* The clustered B+ tree used on its own.                                  *)
(***************************************************************************)
Order == 4

Record(k, n, c) == [key |-> k, name |-> n, city |-> c]

PlainRecords == {Record(k, 1, 1) : k \in Keys}

WithoutKey(S, k) == {r \in S : r.key # k}

\* clean tells that no call has raised so far
Call(op, arg, o) ==
    [op |-> op, arg |-> arg, data |-> o.data, raised |-> o.raised,
     clean |-> last.clean /\ o.raised = ""]

NoCall == [op |-> "none", arg |-> 0, data |-> FALSE, raised |-> "", clean |-> TRUE]

InitBPC ==
    /\ bpc = NewClusteredTree(Order)
    /\ bpu = 0
    /\ eh = 0
    /\ isam = 0
    /\ sf = 0
    /\ db = 0
    /\ perf = 0
    /\ calls = 0
    /\ live = {}
    /\ last = NoCall

\* the end of a call with outcome o: then is what live becomes when the call
\* returns true
BPCReturn(op, arg, o, then) ==
    /\ bpc' = o.t
    /\ live' = IF o.raised = "" /\ o.data THEN then ELSE live
    /\ last' = Call(op, arg, o)
    /\ UNCHANGED <<perf, bpu, eh, isam, sf, db, calls>>

BPCInsert(r) ==
    /\ bpc.next <= MaxNodeId
    /\ BPCReturn("insert", r.key, BPC_insert(bpc, r), live \cup {r})

BPCDelete(k) == BPCReturn("delete", k, BPC_delete(bpc, k), WithoutKey(live, k))

NextBPC ==
    \/ \E r \in PlainRecords : BPCInsert(r)
    \/ \E k \in Keys : BPCDelete(k)

SpecBPC == InitBPC /\ [][NextBPC]_vars

SetOf(s) == {s[i] : i \in 1..Len(s)}

KeysOf(s) == [i \in 1..Len(s) |-> s[i].key]

(***************************************************************************)
(* The unclustered B+ tree: leaves hold (key, pk) entries ordered by key   *)
(* and then pk.  It shares the node file and the split, borrow and merge   *)
(* code above.                                                             *)
(***************************************************************************)
IndexRecord(v, pk) == [key |-> v, pk |-> pk]

\* BPlusTreeUnclusteredIndex.__init__ on a new file: NODE_SIZE is None and
\* nothing is written until the first insert
NewUnclusteredTree(order) ==
    [order |-> order, nodes |-> <<>>, root |-> FIRST_DATA_NODE_ID, next |-> 2,
     dirty |-> FALSE, err |-> "", uncl |-> TRUE]

\* the position loop of the unclustered _insert_into_leaf; -1 for a pair
\* that is already stored
RECURSIVE InsertPos(_, _, _)
InsertPos(items, item, pos) ==
    IF pos >= Len(items) THEN pos
    ELSE LET cur == At(items, pos)
         IN  IF cur.key > item.key THEN pos
             ELSE IF cur.key = item.key /\ cur.pk = item.pk THEN -1
             ELSE IF cur.key = item.key /\ cur.pk > item.pk THEN pos
             ELSE InsertPos(items, item, pos + 1)

\* [t, data]: data is the success flag
U_insert_into_leaf(t, leaf, item) ==
    LET pos == InsertPos(leaf.items, item, 0)
    IN  IF pos = -1 THEN [t |-> t, data |-> FALSE]
        ELSE LET leaf1 == WithItems(leaf, InsertAt(leaf.items, pos, item))
                 t1 == _write_node(t, leaf.id, leaf1)
             IN  [t |-> IF is_full(leaf1, max_keys(t)) THEN _split_leaf_node(t1, leaf1) ELSE t1,
                  data |-> TRUE]

\* BPlusTreeUnclusteredIndex.insert: the first insert writes the root leaf;
\* every exception is caught and reported as data = False
BPU_insert(t, item) ==
    LET t0 == IF Len(t.nodes) = 0
              THEN _write_node(t, FIRST_DATA_NODE_ID,
                       LeafNode(FIRST_DATA_NODE_ID, NULL_NODE_ID, NULL_NODE_ID,
                                NULL_NODE_ID, <<>>))
              ELSE t
        leaf == DescendToLeaf(t0, t0.root, item.key)
        r == U_insert_into_leaf(t0, leaf, item)
    IN  IF leaf.kind = "none" THEN Outcome(t0, FALSE)
        ELSE IF r.t.err # "" THEN Outcome(r.t, FALSE)
        ELSE Outcome(_flush_metadata_if_needed(r.t), r.data)

\* unclustered _find_leaf_for_key returns None instead of raising
U_find_leaf_for_key(t, key) ==
    IF Len(t.nodes) = 0 THEN NoneNode ELSE FindLeafFrom(t, t.root, key)

\* the walk of search over the leaf chain, collecting the pks stored with key
RECURSIVE SearchWalk(_, _, _, _, _, _)
SearchWalk(t, leaf, pos, key, out, fuel) ==
    IF leaf.kind # "leaf" \/ fuel = 0 THEN out
    ELSE IF pos < Len(leaf.keys) /\ At(leaf.keys, pos) = key
    THEN SearchWalk(t, leaf, pos + 1, key, Append(out, At(leaf.items, pos).pk), fuel)
    ELSE IF pos >= Len(leaf.keys) /\ leaf.next # NULL_NODE_ID
    THEN SearchWalk(t, _read_node(t, leaf.next), 0, key, out, fuel - 1)
    ELSE out

BPU_search(t, key) ==
    LET leaf == U_find_leaf_for_key(t, key)
    IN  IF leaf.kind = "none" THEN <<>>
        ELSE SearchWalk(t, leaf, bisect_left(leaf.keys, key), key, <<>>, Len(t.nodes) + 1)

\* the in-memory leaf object after _handle_leaf_underflow: a borrow or a
\* merge with the right sibling changed it (and wrote it), a merge into the
\* left sibling left it as it was
LeafObjectAfter(t, leaf) ==
    IF leaf.id <= Len(t.nodes) /\ t.nodes[leaf.id].kind = "leaf"
    THEN t.nodes[leaf.id] ELSE leaf

\* the removal of one entry found at pos of leaf, with the rebalancing
DeletedOutcome(t) ==
    IF t.err # "" THEN Raised(t, t.err) ELSE Outcome(_flush_metadata_if_needed(t), TRUE)

\* leaf1 is the leaf without the entry; a leaf other than the root that is
\* left in underflow is rebalanced
RemovedFrom(t, leaf1) ==
    DeletedOutcome(_reduce_tree_height_if_needed(
        IF leaf1.id # t.root /\ is_underflow(leaf1, min_keys(t))
        THEN _handle_leaf_underflow(_write_node(t, leaf1.id, leaf1), leaf1)
        ELSE _write_node(t, leaf1.id, leaf1)))

RemoveEntryAt(t, leaf, pos) == RemovedFrom(t, WithItems(leaf, PopAt(leaf.items, pos)))

RECURSIVE DeleteByKeysWalk(_, _, _, _, _, _)
DeleteByKeysWalk(t, leaf, pos, key, pk, fuel) ==
    IF leaf.kind # "leaf" \/ fuel = 0 THEN Outcome(t, FALSE)
    ELSE IF pos < Len(leaf.keys) /\ At(leaf.keys, pos) = key
    THEN IF At(leaf.items, pos).pk = pk
         THEN RemoveEntryAt(t, leaf, pos)
         ELSE DeleteByKeysWalk(t, leaf, pos + 1, key, pk, fuel)
    ELSE IF pos >= Len(leaf.keys) /\ leaf.next # NULL_NODE_ID
    THEN DeleteByKeysWalk(t, _read_node(t, leaf.next), 0, key, pk, fuel - 1)
    ELSE Outcome(t, FALSE)

_delete_by_keys(t, key, pk) ==
    LET leaf == U_find_leaf_for_key(t, key)
    IN  IF leaf.kind = "none" THEN Outcome(t, FALSE)
        ELSE DeleteByKeysWalk(t, leaf, bisect_left(leaf.keys, key), key, pk,
                              Len(t.nodes) + 1)

\* the number of consecutive entries of leaf from pos on that carry key
RECURSIVE RunLength(_, _, _)
RunLength(keys, pos, key) ==
    IF pos < Len(keys) /\ At(keys, pos) = key THEN 1 + RunLength(keys, pos + 1, key) ELSE 0

\* the outer loop of _delete_all_by_secondary_key: [t, pks]
RECURSIVE DeleteAllWalk(_, _, _, _, _, _)
\* the end of one round of the loop: the next leaf is visited when the
\* position i is past the leaf's keys and the next leaf may hold key
DeleteAllNext(t2, leaf2, next_leaf, i, key, pks, fuel) ==
    IF t2.err # "" \/ fuel = 0 THEN [t |-> t2, pks |-> pks]
    ELSE IF i >= Len(leaf2.keys) /\ leaf2.next # NULL_NODE_ID
            /\ next_leaf.kind = "leaf" /\ Len(next_leaf.keys) > 0
            /\ ~(At(next_leaf.keys, 0) > key)
    THEN DeleteAllWalk(t2, next_leaf, 0, key, pks, fuel - 1)
    ELSE [t |-> t2, pks |-> pks]

\* leaf2 is the leaf object the loop goes on with
DeleteAllOn(t2, leaf2, i, key, pks, fuel) ==
    DeleteAllNext(t2, leaf2, _read_node(t2, leaf2.next), i, key, pks, fuel)

\* t2 is the tree after the removal of the run and the rebalancing
DeleteAllRebalanced(t2, leaf, leaf1, n, i, key, pks, fuel) ==
    DeleteAllOn(t2, IF n > 0 THEN LeafObjectAfter(t2, leaf1) ELSE leaf, i, key, pks, fuel)

\* leaf1 is the leaf without its run of n entries with key from pos on
DeleteAllRemoved(t, leaf, leaf1, n, i, key, pks, fuel) ==
    DeleteAllRebalanced(
        IF n = 0 THEN t
        ELSE IF leaf.id # t.root /\ is_underflow(leaf1, min_keys(t))
        THEN _handle_leaf_underflow(_write_node(t, leaf.id, leaf1), leaf1)
        ELSE _write_node(t, leaf.id, leaf1),
        leaf, leaf1, n, i, key, pks, fuel)

DeleteAllRun(t, leaf, pos, n, key, pks, fuel) ==
    DeleteAllRemoved(t, leaf,
                     WithItems(leaf, SliceTo(leaf.items, pos) \o SliceFrom(leaf.items, pos + n)),
                     n, pos + n, key,
                     pks \o [j \in 1..n |-> At(leaf.items, pos + j - 1).pk], fuel)

DeleteAllWalk(t, leaf, pos, key, pks, fuel) ==
    DeleteAllRun(t, leaf, pos, RunLength(leaf.keys, pos, key), key, pks, fuel)

\* the end of _delete_all_by_secondary_key
DeletedAllOutcome(t, pks) ==
    IF t.err # "" THEN [t |-> [t EXCEPT !.err = ""], data |-> <<>>, raised |-> t.err]
    ELSE Outcome(IF Len(pks) > 0 THEN _flush_metadata_if_needed(t) ELSE t, pks)

AfterDeleteAllWalk(r) ==
    DeletedAllOutcome(IF r.t.err = "" /\ Len(r.pks) > 0
                      THEN _reduce_tree_height_if_needed(r.t) ELSE r.t,
                      r.pks)

DeleteAllFrom(t, leaf, key) ==
    IF leaf.kind = "none" THEN Outcome(t, <<>>)
    ELSE AfterDeleteAllWalk(DeleteAllWalk(t, leaf, bisect_left(leaf.keys, key), key, <<>>,
                                          Len(t.nodes) + 1))

\* data is the list of the deleted pks
_delete_all_by_secondary_key(t, key) == DeleteAllFrom(t, U_find_leaf_for_key(t, key), key)

\* every entry of the leaf chain, from the leftmost leaf on
BPU_entries(t) ==
    ChainFrom(t, LeftmostFrom(t, _read_node(t, t.root), Len(t.nodes) + 1), <<>>,
              Len(t.nodes) + 1)


(***************************************************************************)
(* The unclustered B+ tree used on its own.                                *)
(***************************************************************************)
MaxValue == 2

MaxPk == 3

Values == 1..MaxValue

Pks == 1..MaxPk

Entries == {IndexRecord(v, pk) : v \in Values, pk \in Pks}

InitBPU ==
    /\ bpu = NewUnclusteredTree(Order)
    /\ bpc = 0
    /\ eh = 0
    /\ isam = 0
    /\ sf = 0
    /\ db = 0
    /\ perf = 0
    /\ calls = 0
    /\ live = {}
    /\ last = NoCall

\* the end of a call with outcome o: then is what live becomes when the call
\* returns true
BPUReturn(op, arg, o, then) ==
    /\ bpu' = o.t
    /\ live' = IF o.raised = "" /\ o.data THEN then ELSE live
    /\ last' = Call(op, arg, o)
    /\ UNCHANGED <<perf, bpc, eh, isam, sf, db, calls>>

\* the end of a delete(v), which returns the deleted pks
BPUReturnAll(v, o) ==
    /\ bpu' = o.t
    /\ live' = IF o.raised = ""
               THEN {e \in live : ~(e.key = v /\ e.pk \in SetOf(o.data))}
               ELSE live
    /\ last' = Call("delete_all", v, o)
    /\ UNCHANGED <<perf, bpc, eh, isam, sf, db, calls>>

BPUInsert(e) ==
    /\ bpu.next <= MaxNodeIdU
    /\ BPUReturn("insert", e, BPU_insert(bpu, e), live \cup {e})

BPUDelete(e) == BPUReturn("delete", e, _delete_by_keys(bpu, e.key, e.pk), live \ {e})

BPUDeleteAll(v) == BPUReturnAll(v, _delete_all_by_secondary_key(bpu, v))

NextBPU ==
    \/ \E e \in Entries : BPUInsert(e)
    \/ \E e \in Entries : BPUDelete(e)
    \/ \E v \in Values : BPUDeleteAll(v)

SpecBPU == InitBPU /\ [][NextBPU]_vars

(***************************************************************************)
(* The extendible hash.  The bucket file is a sequence of buckets, bucket  *)
(* number b at offset b * bucket_size; a bucket is its header              *)
(* (local_depth, num_slots, num_records, next_overflow_bucket) and         *)
(* BLOCK_FACTOR slots.  An empty slot is the all-zero record.              *)
(***************************************************************************)
BLOCK_FACTOR == 2

MAX_OVERFLOW == 1

MIN_N == BLOCK_FACTOR \div 2

INITIAL_DEPTH == 3

NoBucket == -1

Tombstone == [key |-> 0, pk |-> 0]

EmptySlots == [i \in 1..BLOCK_FACTOR |-> Tombstone]

\* _hash_key: the low bits of the MD5 digest of the decimal text of the value
Md5Low6 == <<27, 44, 51, 44, 21, 28>>

_hash_key(v) == Md5Low6[v]

Pow2(n) == IF n = 0 THEN 1 ELSE IF n = 1 THEN 2 ELSE IF n = 2 THEN 4
           ELSE IF n = 3 THEN 8 ELSE IF n = 4 THEN 16 ELSE IF n = 5 THEN 32 ELSE 64

DiskBucket(ld, ns, nr, next, slots) ==
    [ld |-> ld, ns |-> ns, nr |-> nr, next |-> next, slots |-> slots]

\* _initialize_files: depth 3, two buckets of local depth 1, the directory
\* entries alternating between them
NewHash ==
    [gd |-> INITIAL_DEPTH, free |-> NoBucket,
     dir |-> [i \in 1..Pow2(INITIAL_DEPTH) |-> (i - 1) % 2],
     buckets |-> <<DiskBucket(1, 0, 0, NoBucket, EmptySlots),
                   DiskBucket(1, 0, 0, NoBucket, EmptySlots)>>,
     err |-> ""]

DirAt(h, i) == h.dir[i + 1]

\* the records of the first ns slots that are not the tombstone
RECURSIVE LiveSlots(_, _, _)
LiveSlots(slots, ns, i) ==
    IF i > ns \/ i > Len(slots) THEN <<>>
    ELSE (IF slots[i] # Tombstone THEN <<slots[i]>> ELSE <<>>) \o LiveSlots(slots, ns, i + 1)

\* Bucket.read_bucket: the Bucket object, None for position -1
NoneBucket ==
    [pos |-> NoBucket, ld |-> 0, ns |-> 0, nr |-> 0, next |-> NoBucket,
     records |-> <<>>, data |-> EmptySlots]

read_bucket(h, pos) ==
    IF pos = NoBucket THEN NoneBucket
    ELSE LET d == h.buckets[pos + 1]
         IN  [pos |-> pos, ld |-> d.ld, ns |-> d.ns, nr |-> d.nr, next |-> d.next,
              records |-> LiveSlots(d.slots, d.ns, 1), data |-> d.slots]

WriteHeader(h, pos, ld, ns, nr, next) ==
    [h EXCEPT !.buckets[pos + 1] = DiskBucket(ld, ns, nr, next, @.slots)]

WriteSlot(h, pos, slot, rec) ==
    [h EXCEPT !.buckets[pos + 1].slots[slot + 1] = rec]

\* Bucket.write_bucket: num_slots becomes the number of records
write_bucket(h, bk, pos) ==
    [h EXCEPT !.buckets[pos + 1] =
        DiskBucket(bk.ld, Len(bk.records), bk.nr, bk.next,
                   [i \in 1..BLOCK_FACTOR |->
                       IF i <= Len(bk.records) THEN bk.records[i] ELSE Tombstone])]

\* the first slot below n of data that holds x, -1 if none
FirstSlot(data, n, x) ==
    IF \E i \in 1..n : i <= Len(data) /\ data[i] = x
    THEN (CHOOSE i \in 1..n : i <= Len(data) /\ data[i] = x
                              /\ \A j \in 1..(i - 1) : data[j] # x) - 1
    ELSE -1

\* Bucket.insert: [h, bk, ok]
Bucket_insert(h, bk, rec) ==
    LET tomb == IF bk.ns > bk.nr THEN FirstSlot(bk.data, bk.ns, Tombstone) ELSE -1
        slot == IF tomb # -1 THEN tomb ELSE bk.ns
        bk1 == [bk EXCEPT !.ns = IF tomb # -1 THEN bk.ns ELSE bk.ns + 1,
                          !.nr = bk.nr + 1,
                          !.records = Append(bk.records, rec)]
    IN  IF bk.nr >= BLOCK_FACTOR \/ rec \in SetOf(bk.records)
        THEN [h |-> h, bk |-> bk, ok |-> FALSE]
        ELSE [h |-> WriteHeader(WriteSlot(h, bk.pos, slot, rec),
                                bk.pos, bk1.ld, bk1.ns, bk1.nr, bk1.next),
              bk |-> bk1, ok |-> TRUE]

\* the loop of Bucket.delete over self.records; pk = 0 stands for None:
\* [h, removed] where removed are the 1-based positions in records
RECURSIVE BucketDeleteLoop(_, _, _, _, _, _)
BucketDeleteLoop(h, bk, key, pk, i, removed) ==
    IF i > Len(bk.records) THEN [h |-> h, removed |-> removed]
    ELSE LET record == bk.records[i]
             slot_index == FirstSlot(bk.data, bk.ns, record)
         IN  IF record.key = key /\ (pk = 0 \/ record.pk = pk) /\ slot_index # -1
             THEN IF pk # 0
                  THEN [h |-> WriteSlot(h, bk.pos, slot_index, Tombstone),
                        removed |-> Append(removed, i)]
                  ELSE BucketDeleteLoop(WriteSlot(h, bk.pos, slot_index, Tombstone),
                                        bk, key, pk, i + 1, Append(removed, i))
             ELSE BucketDeleteLoop(h, bk, key, pk, i + 1, removed)

\* Bucket.delete: [h, bk, pks]
Bucket_delete(h, bk, key, pk) ==
    LET r == BucketDeleteLoop(h, bk, key, pk, 1, <<>>)
        gone == SetOf(r.removed)
        bk1 == [bk EXCEPT !.nr = bk.nr - Len(r.removed),
                          !.records = SelectSeq([i \in 1..Len(bk.records) |->
                                                    IF i \in gone THEN Tombstone
                                                    ELSE bk.records[i]],
                                                LAMBDA x : x # Tombstone)]
    IN  [h |-> IF Len(r.removed) > 0
               THEN WriteHeader(r.h, bk.pos, bk1.ld, bk1.ns, bk1.nr, bk1.next)
               ELSE r.h,
         bk |-> bk1,
         pks |-> [j \in 1..Len(r.removed) |-> bk.records[r.removed[j]].pk]]


_get_bucket_from_key(h, key) == read_bucket(h, DirAt(h, _hash_key(key) % Pow2(h.gd)))

\* ExtendibleHashing.search: the pks of the chain's records with the value
RECURSIVE HashSearchWalk(_, _, _, _, _)
HashSearchWalk(h, bk, key, out, fuel) ==
    LET found == SelectSeq(bk.records, LAMBDA r : r.key = key)
        out1 == out \o [i \in 1..Len(found) |-> found[i].pk]
    IN  IF bk.next # NoBucket /\ fuel > 0
        THEN HashSearchWalk(h, read_bucket(h, bk.next), key, out1, fuel - 1)
        ELSE out1

EH_search(h, key) ==
    HashSearchWalk(h, _get_bucket_from_key(h, key), key, <<>>, Len(h.buckets))

\* free_bucket: seeking to position -1 raises OSError
free_bucket(h, pos) ==
    IF h.err # "" THEN h
    ELSE IF pos < 0 THEN [h EXCEPT !.err = "OSError"]
    ELSE [WriteHeader(h, pos, 0, 0, 0, h.free) EXCEPT !.free = pos]

\* _append_new_bucket: [h, pos]; the head of the free list is taken first
_append_new_bucket(h, local_depth) ==
    LET new_pos == IF h.free = NoBucket THEN Len(h.buckets) ELSE h.free
        h1 == IF h.free = NoBucket
              THEN [h EXCEPT !.buckets = Append(h.buckets,
                                                DiskBucket(local_depth, 0, 0, NoBucket,
                                                           EmptySlots))]
              ELSE [h EXCEPT !.free = h.buckets[new_pos + 1].next,
                             !.buckets[new_pos + 1] =
                                 DiskBucket(local_depth, 0, 0, NoBucket, EmptySlots)]
    IN  [h |-> h1, pos |-> new_pos]

_add_overflow(h, bucket_pos, overflow_bucket_pos) ==
    LET b == read_bucket(h, bucket_pos)
    IN  WriteHeader(h, bucket_pos, b.ld, b.ns, b.nr, overflow_bucket_pos)

_double_directory(h) == [h EXCEPT !.dir = h.dir \o h.dir, !.gd = h.gd + 1]

BitOf(i, n) == (i \div Pow2(n)) % 2

_update_directory_pointers(h, old_bucket_pos, new_bucket_pos, new_local_depth) ==
    [h EXCEPT !.dir = [i \in 1..Len(h.dir) |->
                          IF h.dir[i] = old_bucket_pos /\ BitOf(i - 1, new_local_depth - 1) = 1
                          THEN new_bucket_pos
                          ELSE h.dir[i]]]

RECURSIVE ChainRecords(_, _, _)
ChainRecords(h, bk, fuel) ==
    bk.records \o (IF bk.next # NoBucket /\ fuel > 0
                   THEN ChainRecords(h, read_bucket(h, bk.next), fuel - 1)
                   ELSE <<>>)

_get_all_records_from_bucket(h, bk) == ChainRecords(h, bk, Len(h.buckets))

\* the loop of _split_bucket that frees the overflow buckets of the chain
RECURSIVE FreeChain(_, _, _)
FreeChain(h, next_pos, fuel) ==
    IF next_pos = NoBucket \/ fuel = 0 \/ h.err # "" THEN h
    ELSE LET next_in_chain == h.buckets[next_pos + 1].next
         IN  FreeChain(free_bucket(h, next_pos), next_in_chain, fuel - 1)

\* the positions the records are grouped under, in order of first appearance
RECURSIVE GroupOrder(_, _, _, _)
GroupOrder(h, recs, i, seen) ==
    IF i > Len(recs) THEN seen
    ELSE LET target == DirAt(h, _hash_key(recs[i].key) % Pow2(h.gd))
         IN  GroupOrder(h, recs, i + 1,
                        IF target \in SetOf(seen) THEN seen ELSE Append(seen, target))

\* the inner loop of _split_bucket over the records of one group: [h, bk]
RECURSIVE FillGroup(_, _, _, _)
FillGroup(h, bk, recs, i) ==
    IF i > Len(recs) THEN [h |-> h, bk |-> bk]
    ELSE LET record == recs[i]
         IN  IF record \in SetOf(bk.records) THEN FillGroup(h, bk, recs, i + 1)
             ELSE IF Len(bk.records) < BLOCK_FACTOR
             THEN FillGroup(h, [bk EXCEPT !.records = Append(bk.records, record),
                                          !.nr = bk.nr + 1], recs, i + 1)
             ELSE IF bk.next = NoBucket
             THEN LET a == _append_new_bucket(h, bk.ld)
                      h1 == write_bucket(a.h, [bk EXCEPT !.next = a.pos], bk.pos)
                      ob == read_bucket(h1, a.pos)
                  IN  FillGroup(h1,
                                IF Len(ob.records) < BLOCK_FACTOR
                                THEN [ob EXCEPT !.records = Append(ob.records, record),
                                                !.nr = ob.nr + 1]
                                ELSE ob,
                                recs, i + 1)
             ELSE FillGroup(h, bk, recs, i + 1)

RECURSIVE FillGroups(_, _, _, _)
FillGroups(h, all, order, g) ==
    IF g > Len(order) THEN h
    ELSE LET recs == SelectSeq(all, LAMBDA r :
                         DirAt(h, _hash_key(r.key) % Pow2(h.gd)) = order[g])
             r == FillGroup(h, read_bucket(h, order[g]), recs, 1)
         IN  FillGroups(write_bucket(r.h, r.bk, r.bk.pos), all, order, g + 1)

_split_bucket(h, head_bucket, new_index_record) ==
    LET h0 == IF head_bucket.ld = h.gd THEN _double_directory(h) ELSE h
        all == Append(_get_all_records_from_bucket(h0, head_bucket), new_index_record)
        h1 == FreeChain(h0, head_bucket.next, Len(h0.buckets))
        new_local_depth == head_bucket.ld + 1
        h2 == [h1 EXCEPT !.buckets[head_bucket.pos + 1] =
                             DiskBucket(new_local_depth, 0, 0, NoBucket, EmptySlots)]
        a == _append_new_bucket(h2, new_local_depth)
        h3 == _update_directory_pointers(a.h, head_bucket.pos, a.pos, new_local_depth)
    IN  FillGroups(h3, all, GroupOrder(h3, all, 1, <<>>), 1)

\* the while loop of _insert_index_record along the chain:
\* [h, done, last (the last bucket read), count (overflow buckets passed)]
RECURSIVE InsertWalk(_, _, _, _, _)
InsertWalk(h, cur, rec, count, fuel) ==
    LET r == Bucket_insert(h, cur, rec)
    IN  IF cur.nr < BLOCK_FACTOR /\ r.ok
        THEN [h |-> r.h, done |-> TRUE, last |-> cur, count |-> count]
        ELSE IF cur.next # NoBucket /\ fuel > 0
        THEN InsertWalk(h, read_bucket(h, cur.next), rec, count + 1, fuel - 1)
        ELSE [h |-> h, done |-> FALSE, last |-> cur, count |-> count]

_insert_index_record(h, rec) ==
    LET head_bucket == _get_bucket_from_key(h, rec.key)
        w == InsertWalk(h, head_bucket, rec, 0, Len(h.buckets))
    IN  IF w.done THEN w.h
        ELSE IF head_bucket.ld < h.gd THEN _split_bucket(h, head_bucket, rec)
        ELSE IF w.count < MAX_OVERFLOW
        THEN LET a == _append_new_bucket(h, head_bucket.ld)
                 h1 == _add_overflow(a.h, w.last.pos, a.pos)
             IN  Bucket_insert(h1, read_bucket(h1, a.pos), rec).h
        ELSE _split_bucket(_double_directory(h), head_bucket, rec)

\* ExtendibleHashing.insert: the result is always True
EH_insert(h, rec) == _insert_index_record(h, rec)


\* _redirect_directory_entries: the directory entries of the empty bucket
\* are pointed to its sibling, whose local depth is lowered
_redirect_directory_entries(h, empty_bucket, bucket_pos) ==
    IF ~\E i \in 1..Len(h.dir) : h.dir[i] = bucket_pos THEN h
    ELSE LET empty_index == (CHOOSE i \in 1..Len(h.dir) :
                                h.dir[i] = bucket_pos
                                /\ \A j \in 1..(i - 1) : h.dir[j] # bucket_pos) - 1
             mask == Pow2(empty_bucket.ld - 1)
             sibling_index == IF BitOf(empty_index, empty_bucket.ld - 1) = 1
                              THEN empty_index - mask ELSE empty_index + mask
             sibling_pos == DirAt(h, sibling_index)
             h1 == [h EXCEPT !.dir = [i \in 1..Len(h.dir) |->
                                         IF h.dir[i] = bucket_pos THEN sibling_pos
                                         ELSE h.dir[i]]]
             sib == h1.buckets[sibling_pos + 1]
         IN  IF sibling_pos # bucket_pos /\ sib.ld = empty_bucket.ld
             THEN WriteHeader(h1, sibling_pos, sib.ld - 1, sib.ns, sib.nr, sib.next)
             ELSE h1

_handle_empty_bucket(h, empty_bucket, bucket_pos) ==
    free_bucket(_redirect_directory_entries(h, empty_bucket, bucket_pos), bucket_pos)

\* the for loop of _overflow_to_main_bucket over next_bucket.records, a list
\* that Bucket.delete shortens while the loop runs: [h, bk]
RECURSIVE CompactFor(_, _, _)
\* one round of the loop: d is what next_bucket.delete left, and the record
\* goes back through insert
CompactMoved(d, rec, i) == CompactFor(EH_insert(d.h, rec), d.bk, i + 1)

CompactFor(h, next_bucket, i) ==
    IF i > Len(next_bucket.records) THEN [h |-> h, bk |-> next_bucket]
    ELSE CompactMoved(Bucket_delete(h, next_bucket, next_bucket.records[i].key, 0),
                      next_bucket.records[i], i)

\* the first while loop of _overflow_to_main_bucket; r is what the for loop
\* over one overflow bucket left
RECURSIVE CompactChain(_, _, _)
CompactNext(r, fuel) ==
    IF r.bk.next # NoBucket
    THEN CompactChain(r.h, read_bucket(r.h, r.bk.next), fuel - 1)
    ELSE r.h

CompactChain(h, next_bucket, fuel) ==
    IF next_bucket.nr > 0 /\ fuel > 0
    THEN CompactNext(CompactFor(h, next_bucket, 1), fuel)
    ELSE h

\* the second while loop: the overflow buckets left empty are freed
RECURSIVE FreeEmptied(_, _, _)
FreeEmptied(h, next_pos, fuel) ==
    IF next_pos = NoBucket \/ fuel = 0 \/ h.err # "" THEN h
    ELSE LET next_bucket == read_bucket(h, next_pos)
         IN  FreeEmptied(IF next_bucket.nr = 0 THEN free_bucket(h, next_pos) ELSE h,
                         next_bucket.next, fuel - 1)

\* the end of _overflow_to_main_bucket: a head left empty is handled as an
\* empty bucket
EmptyAfterCompaction(h, curr, curr_pos) ==
    IF h.err = "" /\ curr.nr = 0 THEN _handle_empty_bucket(h, curr, curr_pos) ELSE h

FreeAfterCompaction(h, curr, curr_pos) ==
    EmptyAfterCompaction(FreeEmptied(h, curr.next, Len(h.buckets)), curr, curr_pos)

_overflow_to_main_bucket(h, curr, curr_pos) ==
    IF curr.next = NoBucket THEN h
    ELSE FreeAfterCompaction(CompactChain(h, read_bucket(h, curr.next), Len(h.buckets)),
                             curr, curr_pos)

\* the loop of delete along the chain: [h, head (the head Bucket object
\* after its own delete), pks]
RECURSIVE DeleteWalk(_, _, _, _, _, _, _)
\* the walk after bucket.delete left d
DeleteWalkOn(d, key, pk, head, pks, fuel) ==
    DeleteWalk(d.h, read_bucket(d.h, d.bk.next), key, pk,
               IF head.pos = NoBucket THEN d.bk ELSE head,
               pks \o d.pks, fuel - 1)

DeleteWalk(h, bk, key, pk, head, pks, fuel) ==
    IF bk.pos = NoBucket \/ fuel = 0 THEN [h |-> h, head |-> head, pks |-> pks]
    ELSE DeleteWalkOn(Bucket_delete(h, bk, key, pk), key, pk, head, pks, fuel)

\* ExtendibleHashing.delete; pk = 0 stands for None.  After the loop
\* bucket_pos is -1, and that is what the compaction and the handling of
\* the empty bucket receive.
DeleteOutcome(h, pks) ==
    IF h.err # ""
    THEN [t |-> [h EXCEPT !.err = ""], data |-> <<>>, raised |-> h.err]
    ELSE [t |-> h, data |-> pks, raised |-> ""]

\* what delete does after its loop, w being what the loop left
AfterDeleteWalk(w) ==
    DeleteOutcome(IF w.head.nr <= MIN_N
                  THEN IF w.head.next # NoBucket
                       THEN _overflow_to_main_bucket(w.h, w.head, NoBucket)
                       ELSE IF w.head.nr = 0
                            THEN _handle_empty_bucket(w.h, w.head, NoBucket)
                            ELSE w.h
                  ELSE w.h,
                  w.pks)

EH_delete(h, key, pk) ==
    AfterDeleteWalk(DeleteWalk(h, _get_bucket_from_key(h, key), key, pk, NoneBucket, <<>>,
                               Len(h.buckets) + 1))

\* every record stored in a bucket a directory entry leads to
EH_entries(h) ==
    UNION {SetOf(ChainRecords(h, read_bucket(h, h.dir[i]), Len(h.buckets)))
              : i \in 1..Len(h.dir)}

(***************************************************************************)
(* The extendible hash used on its own.                                    *)
(***************************************************************************)
\* the hash is explored through every sequence of this many calls
MaxCalls == 6

MaxHashPk == 4

\* value 1 with every pk, value 3 (same directory entry up to depth 3) once
HashEntries == {IndexRecord(1, pk) : pk \in 1..MaxHashPk} \cup {IndexRecord(3, 1)}

HashValues == {1, 3}

InitEH ==
    /\ eh = NewHash
    /\ calls = 0
    /\ bpc = 0
    /\ bpu = 0
    /\ isam = 0
    /\ sf = 0
    /\ db = 0
    /\ perf = 0
    /\ live = {}
    /\ last = NoCall

EHInsert(e) ==
    /\ calls < MaxCalls
    /\ calls' = calls + 1
    /\ eh' = EH_insert(eh, e)
    /\ live' = live \cup {e}
    /\ last' = Call("insert", e, [data |-> TRUE, raised |-> ""])
    /\ UNCHANGED <<perf, bpc, bpu, isam, sf, db>>

\* the end of a delete with outcome o, whose data is the list of deleted pks
EHReturn(op, arg, o, then) ==
    /\ calls < MaxCalls
    /\ calls' = calls + 1
    /\ eh' = o.t
    /\ live' = IF o.raised = "" THEN {e \in live : e \notin then \/ e.pk \notin SetOf(o.data)}
               ELSE live
    /\ last' = Call(op, arg, o)
    /\ UNCHANGED <<perf, bpc, bpu, isam, sf, db>>

EHDelete(e) == EHReturn("delete", e, EH_delete(eh, e.key, e.pk), {e})

EHDeleteAll(v) ==
    EHReturn("delete_all", v, EH_delete(eh, v, 0), {e \in live : e.key = v})

NextEH ==
    \/ \E e \in HashEntries : EHInsert(e)
    \/ \E e \in HashEntries : EHDelete(e)
    \/ \E v \in HashValues : EHDeleteAll(v)

SpecEH == InitEH /\ [][NextEH]_vars

(***************************************************************************)
(* ISAM primary index (src/indexes/isam/isam.py).  The data file is the     *)
(* sequence pages (page number p is pages[p + 1]), the leaf index file the  *)
(* sequence leaves, the root index file its single page root, the free     *)
(* list file the record fl.  exists tells whether the three files exist.   *)
(* The counters next_page_number, next_leaf_index_page_number and          *)
(* next_root_index_page_number are written but never read and are left out.*)
(*                                                                         *)
(* delete keeps the data file open through one buffered handle while       *)
(* _should_rebuild and rebuild read the same file through a second handle. *)
(* What the second handle sees depends on how many of the first handle's   *)
(* writes the io buffer still holds, which varies with the record size and *)
(* the buffer size.  log keeps the data file after each write of the       *)
(* running delete; the number of writes still pending is an input of       *)
(* delete.  Outside delete log is empty.                                   *)
(***************************************************************************)
Page(records, next_page) == [records |-> records, next_page |-> next_page]

LeafIndexEntry(key, data_page_number) == [key |-> key, page |-> data_page_number]

LeafIndex(entries, next_page) == [entries |-> entries, next_page |-> next_page]

RootIndexEntry(key, leaf_page_number) == [key |-> key, page |-> leaf_page_number]

NoFreeList == [exists |-> FALSE, count |-> 0, items |-> <<>>]

NewISAM(bf, lbf, rbf, ct) ==
    [exists |-> FALSE, bf |-> bf, lbf |-> lbf, rbf |-> rbf, ct |-> ct,
     pages |-> <<>>, leaves |-> <<>>, root |-> <<>>, fl |-> NoFreeList,
     log |-> <<>>, err |-> "", rebuilt |-> FALSE]

RECURSIVE PageInsertPos(_, _, _, _)
PageInsertPos(records, key, left, right) ==
    IF left < right
    THEN LET mid == (left + right) \div 2
         IN  IF At(records, mid).key = key THEN -1
             ELSE IF At(records, mid).key < key
                  THEN PageInsertPos(records, key, mid + 1, right)
                  ELSE PageInsertPos(records, key, left, mid)
    ELSE left

\* Page.insert_sorted: the new records, or the page unchanged and dup
Page_insert_sorted(page, record) ==
    LET pos == PageInsertPos(page.records, record.key, 0, Len(page.records))
    IN  IF pos = -1
        THEN [page |-> page, dup |-> TRUE]
        ELSE [page |-> [page EXCEPT !.records = InsertAt(page.records, pos, record)],
              dup |-> FALSE]

Page_is_full(t, page) == Len(page.records) >= t.bf

RECURSIVE RemovePos(_, _, _, _)
RemovePos(records, key, left, right) ==
    IF left <= right
    THEN LET mid == (left + right) \div 2
         IN  IF At(records, mid).key = key THEN mid
             ELSE IF At(records, mid).key < key
                  THEN RemovePos(records, key, mid + 1, right)
                  ELSE RemovePos(records, key, left, mid - 1)
    ELSE -1

\* Page.remove_record
remove_record(page, key) ==
    LET pos == RemovePos(page.records, key, 0, Len(page.records) - 1)
    IN  IF pos = -1
        THEN [page |-> page, removed |-> FALSE]
        ELSE [page |-> [page EXCEPT !.records = PopAt(page.records, pos)],
              removed |-> TRUE]

RECURSIVE SortedInsert(_, _)
SortedInsert(sorted, r) ==
    IF sorted = <<>> THEN <<r>>
    ELSE IF Last(sorted).key <= r.key THEN Append(sorted, r)
         ELSE Append(SortedInsert(ButLast(sorted), r), Last(sorted))

\* list.sort(key = get_key): stable
RECURSIVE SortByKey(_)
SortByKey(s) ==
    IF s = <<>> THEN <<>> ELSE SortedInsert(SortByKey(ButLast(s)), Last(s))

can_merge_with(t, page, other) == Len(page.records) + Len(other.records) <= t.bf

merge_with(page, other) ==
    [page EXCEPT !.records = SortByKey(page.records \o other.records)]

RECURSIVE EntryInsertPos(_, _, _, _)
EntryInsertPos(entries, key, left, right) ==
    IF left < right
    THEN LET mid == (left + right) \div 2
         IN  IF At(entries, mid).key < key
             THEN EntryInsertPos(entries, key, mid + 1, right)
             ELSE EntryInsertPos(entries, key, left, mid)
    ELSE left

\* LeafIndex.insert_sorted and RootIndex.insert_sorted
Index_insert_sorted(entries, entry) ==
    InsertAt(entries, EntryInsertPos(entries, entry.key, 0, Len(entries)), entry)

RECURSIVE FindPageFrom(_, _, _, _, _)
FindPageFrom(entries, key, left, right, result_page) ==
    IF left <= right
    THEN LET mid == (left + right) \div 2
         IN  IF key < At(entries, mid).key
             THEN FindPageFrom(entries, key, left, mid - 1, result_page)
             ELSE FindPageFrom(entries, key, mid + 1, right, At(entries, mid).page)
    ELSE result_page

\* RootIndex.find_leaf_page_for_key
find_leaf_page_for_key(entries, key) ==
    IF entries = <<>> THEN 0 ELSE FindPageFrom(entries, key, 0, Len(entries) - 1, 0)

\* LeafIndex.find_data_page_for_key
find_data_page_for_key(entries, key) ==
    IF entries = <<>> THEN 0 ELSE FindPageFrom(entries, key, 0, Len(entries) - 1, 0)

push_free_page(t, page_num) ==
    LET count == IF t.fl.exists THEN t.fl.count ELSE 0
    IN  [t EXCEPT !.fl = [exists |-> TRUE, count |-> count + 1,
                          items |-> IF count > 0 THEN Append(t.fl.items, page_num)
                                    ELSE <<page_num>>]]

\* pop_free_page: [t, page]; page = -1 stands for None
pop_free_page(t) ==
    IF ~t.fl.exists \/ t.fl.count <= 0
    THEN [t |-> t, page |-> -1]
    ELSE [t |-> [t EXCEPT !.fl.count = t.fl.count - 1],
          page |-> t.fl.items[t.fl.count]]

_get_free_count(t) == IF t.fl.exists THEN t.fl.count ELSE 0

ISAM_read_page(t, page_num) == At(t.pages, page_num)

ISAM_write_page(t, page_num, page) ==
    LET pages == IF page_num < Len(t.pages)
                 THEN SetAt(t.pages, page_num, page)
                 ELSE Append(t.pages, page)
    IN  [t EXCEPT !.pages = pages,
                  !.log = IF t.log = <<>> THEN <<>> ELSE Append(t.log, pages)]

\* the index as a second handle on the data file sees it while the last
\* pending writes of the first handle are still in its buffer
Visible(t, pending) ==
    IF t.log = <<>> THEN t
    ELSE [t EXCEPT !.pages = t.log[IF Len(t.log) - pending < 1 THEN 1
                                   ELSE Len(t.log) - pending]]

_read_leaf_index(t, page_num) == At(t.leaves, page_num)

_write_leaf_index(t, page_num, leaf_index) ==
    IF page_num < Len(t.leaves)
    THEN [t EXCEPT !.leaves = SetAt(t.leaves, page_num, leaf_index)]
    ELSE [t EXCEPT !.leaves = Append(t.leaves, leaf_index)]

_find_target_leaf_page(t, key) ==
    IF ~t.exists THEN 0 ELSE find_leaf_page_for_key(t.root, key)

_find_target_data_page(t, key, leaf_page_num) ==
    IF ~t.exists THEN 0
    ELSE find_data_page_for_key(_read_leaf_index(t, leaf_page_num).entries, key)

RECURSIVE _search_in_page_chain(_, _, _, _)
_search_in_page_chain(t, current_page_num, key, visited) ==
    IF current_page_num = -1 \/ current_page_num \in visited
       \/ current_page_num >= Len(t.pages)
    THEN NoRecord
    ELSE LET page == ISAM_read_page(t, current_page_num)
             hits == {i \in 1..Len(page.records) : page.records[i].key = key}
         IN  IF hits # {}
             THEN page.records[CHOOSE i \in hits : \A j \in hits : i <= j]
             ELSE _search_in_page_chain(t, page.next_page, key,
                                        visited \cup {current_page_num})

ISAM_search(t, key) ==
    IF ~t.exists THEN NoRecord
    ELSE LET target_leaf_page_num == find_leaf_page_for_key(t.root, key)
             leaf_index == _read_leaf_index(t, target_leaf_page_num)
             target_data_page_num == find_data_page_for_key(leaf_index.entries, key)
         IN  _search_in_page_chain(t, target_data_page_num, key, {})

\* the records of the chain starting at a page, and the pages visited
RECURSIVE ScanChain(_, _, _, _)
ScanChain(t, current_page_num, visited, results) ==
    IF current_page_num = -1 \/ current_page_num \in visited
    THEN [visited |-> visited, results |-> results]
    ELSE LET page == ISAM_read_page(t, current_page_num)
         IN  ScanChain(t, page.next_page, visited \cup {current_page_num},
                       results \o page.records)

RECURSIVE ScanPages(_, _, _, _)
ScanPages(t, i, visited, results) ==
    IF i >= Len(t.pages) THEN results
    ELSE LET c == ScanChain(t, i, visited, results)
         IN  ScanPages(t, i + 1, c.visited, c.results)

ISAM_scan_all(t) == IF ~t.exists THEN <<>> ELSE ScanPages(t, 0, {}, <<>>)

\* first leaf page (ascending) whose last key reaches begin_key, else 0
RECURSIVE StartLeaf(_, _, _)
StartLeaf(t, i, begin_key) ==
    IF i >= Len(t.leaves) THEN 0
    ELSE LET entries == _read_leaf_index(t, i).entries
         IN  IF entries # <<>> /\ Last(entries).key >= begin_key THEN i
             ELSE StartLeaf(t, i + 1, begin_key)

\* last leaf page (descending) whose first key is at most end_key, else 0
RECURSIVE EndLeaf(_, _, _)
EndLeaf(t, i, end_key) ==
    IF i < 0 THEN 0
    ELSE LET entries == _read_leaf_index(t, i).entries
         IN  IF entries # <<>> /\ entries[1].key <= end_key THEN i
             ELSE EndLeaf(t, i - 1, end_key)

_find_leaf_page_range_for_keys(t, begin_key, end_key) ==
    IF ~t.exists \/ t.root = <<>> THEN <<0, 0>>
    ELSE <<StartLeaf(t, 0, begin_key), EndLeaf(t, Len(t.leaves) - 1, end_key)>>

\* the records of one page that range_search keeps: it stops at the first
\* record above end_key
RECURSIVE RangeInPage(_, _, _, _)
RangeInPage(records, i, begin_key, end_key) ==
    IF i > Len(records) \/ records[i].key > end_key THEN <<>>
    ELSE (IF begin_key <= records[i].key THEN <<records[i]>> ELSE <<>>)
         \o RangeInPage(records, i + 1, begin_key, end_key)

RECURSIVE RangeChain(_, _, _, _, _, _)
RangeChain(t, current_page_num, visited, results, begin_key, end_key) ==
    IF current_page_num = -1 \/ current_page_num \in visited
    THEN [visited |-> visited, results |-> results]
    ELSE LET page == ISAM_read_page(t, current_page_num)
         IN  RangeChain(t, page.next_page, visited \cup {current_page_num},
                        results \o RangeInPage(page.records, 1, begin_key, end_key),
                        begin_key, end_key)

\* the entries of one leaf index page, up to the first entry above end_key
RECURSIVE RangeEntries(_, _, _, _, _, _, _)
RangeEntries(t, entries, i, visited, results, begin_key, end_key) ==
    IF i > Len(entries) \/ entries[i].key > end_key
    THEN [visited |-> visited, results |-> results]
    ELSE LET c == RangeChain(t, entries[i].page, visited, results, begin_key, end_key)
         IN  RangeEntries(t, entries, i + 1, c.visited, c.results, begin_key, end_key)

RECURSIVE RangeLeaves(_, _, _, _, _, _, _)
RangeLeaves(t, leaf_page_num, end_leaf, visited, results, begin_key, end_key) ==
    IF leaf_page_num > end_leaf THEN results
    ELSE LET c == RangeEntries(t, _read_leaf_index(t, leaf_page_num).entries, 1,
                               visited, results, begin_key, end_key)
         IN  RangeLeaves(t, leaf_page_num + 1, end_leaf, c.visited, c.results,
                         begin_key, end_key)

ISAM_range_search(t, begin_key, end_key) ==
    IF ~t.exists \/ begin_key > end_key THEN <<>>
    ELSE LET range == _find_leaf_page_range_for_keys(t, begin_key, end_key)
         IN  SortByKey(RangeLeaves(t, range[1], range[2], {}, <<>>, begin_key, end_key))

\* _is_overflow_page: no leaf index entry points to the page
_is_overflow_page(t, page_num) ==
    IF ~t.exists THEN page_num > 0
    ELSE \A i \in 1..Len(t.leaves) :
            \A e \in 1..Len(t.leaves[i].entries) : t.leaves[i].entries[e].page # page_num

_update_root_index_with_new_page(t, key, leaf_page_num) ==
    [t EXCEPT !.root = Index_insert_sorted(t.root, RootIndexEntry(key, leaf_page_num))]

_split_leaf_index_page(t, leaf_page_num, overloaded_leaf_index) ==
    LET mid_point == Len(overloaded_leaf_index.entries) \div 2
        left_entries == SliceTo(overloaded_leaf_index.entries, mid_point)
        right_entries == SliceFrom(overloaded_leaf_index.entries, mid_point)
        new_leaf_page_num == Len(t.leaves)
        t1 == _write_leaf_index(t, leaf_page_num, LeafIndex(left_entries, new_leaf_page_num))
        t2 == _write_leaf_index(t1, new_leaf_page_num,
                                LeafIndex(right_entries, overloaded_leaf_index.next_page))
    IN  _update_root_index_with_new_page(t2, right_entries[1].key, new_leaf_page_num)

\* the first entry that points to the left page gets the left page's first key
RekeyEntry(entries, left_page_num, left_key) ==
    LET hits == {i \in 1..Len(entries) : entries[i].page = left_page_num}
    IN  IF hits = {} THEN entries
        ELSE [entries EXCEPT ![CHOOSE i \in hits : \A j \in hits : i <= j].key = left_key]

StoreLeafIndex(t, leaf_page_num, leaf_index) ==
    IF Len(leaf_index.entries) > t.lbf
    THEN _split_leaf_index_page(t, leaf_page_num, leaf_index)
    ELSE _write_leaf_index(t, leaf_page_num, leaf_index)

_update_leaf_index_after_split(t, right_key, right_page_num, left_page_num, left_key, leaf_page_num) ==
    LET leaf_index == _read_leaf_index(t, leaf_page_num)
        rekeyed == RekeyEntry(leaf_index.entries, left_page_num, left_key)
        entries == Index_insert_sorted(rekeyed, LeafIndexEntry(right_key, right_page_num))
    IN  StoreLeafIndex(t, leaf_page_num, [leaf_index EXCEPT !.entries = entries])

_split_page_strategy(t, page_num, page, new_record, leaf_page_num) ==
    LET all_records == SortByKey(Append(page.records, new_record))
        mid_point == Len(all_records) \div 2
        left_records == SliceTo(all_records, mid_point)
        right_records == SliceFrom(all_records, mid_point)
        t1 == ISAM_write_page(t, page_num, Page(left_records, -1))
        new_page_num == Len(t1.pages)
        t2 == ISAM_write_page(t1, new_page_num, Page(right_records, -1))
    IN  _update_leaf_index_after_split(t2, right_records[1].key, new_page_num, page_num,
                                       left_records[1].key, leaf_page_num)

_split_leaf_index_strategy(t, page_num, page, new_record, leaf_page_num) ==
    LET all_records == SortByKey(Append(page.records, new_record))
        mid_point == Len(all_records) \div 2
        left_records == SliceTo(all_records, mid_point)
        right_records == SliceFrom(all_records, mid_point)
        t1 == ISAM_write_page(t, page_num, Page(left_records, -1))
        new_data_page_num == Len(t1.pages)
        t2 == ISAM_write_page(t1, new_data_page_num, Page(right_records, -1))
        current_leaf_index == _read_leaf_index(t2, leaf_page_num)
        entries == Index_insert_sorted(current_leaf_index.entries,
                                       LeafIndexEntry(right_records[1].key, new_data_page_num))
    IN  StoreLeafIndex(t2, leaf_page_num, [current_leaf_index EXCEPT !.entries = entries])

\* _find_available_or_last_page_in_chain: [num, need_new_page, loops]; the
\* code's walk has no visited set, so a cyclic chain of full pages never ends
RECURSIVE _find_available_or_last_page_in_chain(_, _, _)
_find_available_or_last_page_in_chain(t, current_page_num, visited) ==
    LET page == ISAM_read_page(t, current_page_num)
    IN  IF current_page_num \in visited
        THEN [num |-> current_page_num, need_new_page |-> TRUE, loops |-> TRUE]
        ELSE IF ~Page_is_full(t, page)
        THEN [num |-> current_page_num, need_new_page |-> FALSE, loops |-> FALSE]
        ELSE IF page.next_page = -1
        THEN [num |-> current_page_num, need_new_page |-> TRUE, loops |-> FALSE]
        ELSE _find_available_or_last_page_in_chain(t, page.next_page,
                                                   visited \cup {current_page_num})

_overflow_page_strategy(t, page_num, original_page, new_record) ==
    LET f == _find_available_or_last_page_in_chain(t, page_num, {})
        page_found == ISAM_read_page(t, f.num)
    IN  IF f.loops THEN Raise(t, "Nontermination")
        ELSE IF ~f.need_new_page
        THEN LET ins == Page_insert_sorted(page_found, new_record)
             IN  IF ins.dup THEN Raise(t, "ValueError")
                 ELSE ISAM_write_page(t, f.num, ins.page)
        ELSE LET popped == pop_free_page(t)
                 new_overflow_page_num ==
                     IF popped.page # -1 THEN popped.page ELSE Len(t.pages)
                 t1 == ISAM_write_page(popped.t, new_overflow_page_num,
                                       Page(<<new_record>>, -1))
             IN  ISAM_write_page(t1, f.num,
                                 [page_found EXCEPT !.next_page = new_overflow_page_num])

_handle_page_overflow(t, page_num, page, new_record, current_leaf_page_num) ==
    IF Len(_read_leaf_index(t, current_leaf_page_num).entries) < t.lbf
    THEN _split_page_strategy(t, page_num, page, new_record, current_leaf_page_num)
    ELSE IF Len(t.root) < t.rbf
    THEN _split_leaf_index_strategy(t, page_num, page, new_record, current_leaf_page_num)
    ELSE _overflow_page_strategy(t, page_num, page, new_record)

_create_initial_files(t, record) ==
    [t EXCEPT !.exists = TRUE,
              !.pages = <<Page(<<record>>, -1)>>,
              !.leaves = <<LeafIndex(<<LeafIndexEntry(record.key, 0)>>, -1)>>,
              !.root = <<>>,
              !.fl = NoFreeList]

\* _count_overflow_chain_length
RECURSIVE ChainLength(_, _, _)
ChainLength(t, current, length) ==
    IF current # -1 /\ length < 10 /\ current < Len(t.pages)
    THEN ChainLength(t, ISAM_read_page(t, current).next_page, length + 1)
    ELSE length

_count_overflow_chain_length(t, start_page_num) ==
    IF _is_overflow_page(t, start_page_num) THEN 0
    ELSE IF ISAM_read_page(t, start_page_num).next_page = -1 THEN 0
    ELSE ChainLength(t, ISAM_read_page(t, start_page_num).next_page, 1)

RECURSIVE SumSeq(_)
SumSeq(s) == IF s = <<>> THEN 0 ELSE s[1] + SumSeq(Tail(s))

ShouldRebuild(t) ==
    IF ~t.exists \/ _get_free_count(t) = 0 \/ Len(t.pages) = 0 THEN FALSE
    ELSE IF _get_free_count(t) * 10 > 4 * Len(t.pages) THEN TRUE
    ELSE LET lengths == [i \in 1..Len(t.pages) |-> _count_overflow_chain_length(t, i - 1)]
             chain_count == Cardinality({i \in 1..Len(t.pages) : lengths[i] > 0})
         IN  chain_count > 0 /\ SumSeq(lengths) > 4 * chain_count

_should_rebuild(t, pending) == ShouldRebuild(Visible(t, pending))

RECURSIVE ISAM_insert_into(_, _)
RECURSIVE ISAM_rebuild(_, _)
RECURSIVE RebuildInsert(_, _, _)
\* the loop of rebuild: an insert that raises ends it
RebuildInsert(t, all_records, i) ==
    IF i > Len(all_records) \/ t.err # "" THEN t
    ELSE RebuildInsert(ISAM_insert_into(t, all_records[i]), all_records, i + 1)

\* rebuild: the files are renamed away, the block factors grow (int(x * 1.5),
\* int(x * 1.3)), the free list is cleared and every scanned record is
\* inserted again
ISAM_rebuild(t, pending) ==
    LET all_records == SortByKey(ISAM_scan_all(Visible(t, pending)))
        new_block_factor == (t.bf * 13) \div 10
    IN  RebuildInsert([t EXCEPT !.exists = FALSE, !.pages = <<>>, !.leaves = <<>>,
                                !.root = <<>>,
                                !.rbf = (t.rbf * 3) \div 2,
                                !.lbf = (t.lbf * 3) \div 2,
                                !.bf = new_block_factor,
                                !.ct = new_block_factor \div 3,
                                !.fl = NoFreeList,
                                !.log = <<>>,
                                !.rebuilt = TRUE],
                      all_records, 1)

\* insert up to its return; a duplicate key raises ValueError
ISAM_insert_into(t, record) ==
    IF ISAM_search(t, record.key) # NoRecord THEN Raise(t, "ValueError")
    ELSE IF ~t.exists THEN _create_initial_files(t, record)
    ELSE LET target_leaf_page_num == _find_target_leaf_page(t, record.key)
             target_data_page_num ==
                 _find_target_data_page(t, record.key, target_leaf_page_num)
             page == ISAM_read_page(t, target_data_page_num)
             ins == Page_insert_sorted(page, record)
             t1 == IF ~Page_is_full(t, page)
                   THEN IF ins.dup THEN Raise(t, "ValueError")
                        ELSE ISAM_write_page(t, target_data_page_num, ins.page)
                   ELSE _handle_page_overflow(t, target_data_page_num, page, record,
                                              target_leaf_page_num)
         IN  IF t1.err # "" THEN t1
             ELSE IF _should_rebuild(t1, 0) THEN ISAM_rebuild(t1, 0) ELSE t1

ISAM_insert(t, record) ==
    LET t1 == ISAM_insert_into([t EXCEPT !.rebuilt = FALSE], record)
    IN  IF t1.err # "" THEN Raised(t1, t1.err) ELSE Outcome(t1, TRUE)

_try_consolidate_page(t, page_num) ==
    LET page == ISAM_read_page(t, page_num)
        next_page_num == page.next_page
        next_page == ISAM_read_page(t, next_page_num)
    IN  IF page.next_page = -1 THEN t
        ELSE IF ~can_merge_with(t, page, next_page) THEN t
        ELSE LET merged == [merge_with(page, next_page)
                              EXCEPT !.next_page = next_page.next_page]
                 t1 == ISAM_write_page(t, page_num, merged)
             IN  IF _is_overflow_page(t1, next_page_num)
                 THEN push_free_page(t1, next_page_num)
                 ELSE ISAM_write_page(t1, next_page_num, Page(<<>>, -1))

\* _remove_page_from_chain; the code's walk has no visited set
RECURSIVE RemoveFromChain(_, _, _, _)
RemoveFromChain(t, current_page_num, page_to_remove, visited) ==
    IF current_page_num = -1 THEN t
    ELSE IF current_page_num \in visited THEN Raise(t, "Nontermination")
    ELSE LET page == ISAM_read_page(t, current_page_num)
         IN  IF page.next_page = page_to_remove
             THEN ISAM_write_page(t, current_page_num,
                      [page EXCEPT !.next_page = ISAM_read_page(t, page_to_remove).next_page])
             ELSE RemoveFromChain(t, page.next_page, page_to_remove,
                                  visited \cup {current_page_num})

_remove_page_from_chain(t, start_page_num, page_to_remove) ==
    IF start_page_num = page_to_remove THEN t
    ELSE RemoveFromChain(t, start_page_num, page_to_remove, {})

\* _delete_from_overflow_chain: [t, result]
RECURSIVE DeleteFromChain(_, _, _, _, _, _)
DeleteFromChain(t, start_page_num, current_page_num, key, visited, pending) ==
    IF current_page_num = -1 THEN [t |-> t, result |-> FALSE]
    ELSE IF current_page_num \in visited
    THEN [t |-> Raise(t, "Nontermination"), result |-> FALSE]
    ELSE LET page == ISAM_read_page(t, current_page_num)
             rem == remove_record(page, key)
             t1 == ISAM_write_page(t, current_page_num, rem.page)
             t2 == IF Len(rem.page.records) = 0 /\ _is_overflow_page(t1, current_page_num)
                   THEN LET t3 == _remove_page_from_chain(t1, start_page_num, current_page_num)
                        IN  IF t3.err # "" THEN t3
                            ELSE push_free_page(t3, current_page_num)
                   ELSE IF Len(rem.page.records) <= t.ct
                   THEN _try_consolidate_page(t1, current_page_num)
                   ELSE t1
         IN  IF rem.removed
             THEN [t |-> IF t2.err = "" /\ _should_rebuild(t2, pending)
                         THEN ISAM_rebuild(t2, pending) ELSE t2,
                   result |-> TRUE]
             ELSE DeleteFromChain(t, start_page_num, page.next_page, key,
                                  visited \cup {current_page_num}, pending)

Closed(o) == [o EXCEPT !.t.log = <<>>]

ISAM_delete_opened(t, key, pending) ==
    IF ~t.exists THEN Outcome(t, FALSE)
    ELSE LET target_leaf_page_num == _find_target_leaf_page(t, key)
             target_data_page_num == _find_target_data_page(t, key, target_leaf_page_num)
             page == ISAM_read_page(t, target_data_page_num)
             rem == remove_record(page, key)
             t1 == ISAM_write_page(t, target_data_page_num, rem.page)
             t2 == IF Len(rem.page.records) <= t.ct
                   THEN LET t3 == _try_consolidate_page(t1, target_data_page_num)
                        IN  IF _should_rebuild(t3, pending)
                            THEN ISAM_rebuild(t3, pending) ELSE t3
                   ELSE t1
             d == DeleteFromChain(t, target_data_page_num, target_data_page_num, key, {},
                                  pending)
         IN  IF rem.removed
             THEN IF t2.err # "" THEN Raised(t2, t2.err) ELSE Outcome(t2, TRUE)
             ELSE IF d.t.err # "" THEN Raised(d.t, d.t.err) ELSE Outcome(d.t, d.result)

ISAM_delete(t, key, pending) ==
    Closed(ISAM_delete_opened([t EXCEPT !.log = <<t.pages>>, !.rebuilt = FALSE], key, pending))

(***************************************************************************)
(* The ISAM index under every sequence of inserts and deletes.  The block  *)
(* factors are the constructor's parameters.                               *)
(***************************************************************************)
ISAM_BLOCK_FACTOR == 2

LEAF_INDEX_BLOCK_FACTOR == 2

ROOT_INDEX_BLOCK_FACTOR == 1

CONSOLIDATION_THRESHOLD == ISAM_BLOCK_FACTOR \div 3

MaxISAMKey == 6

MaxISAMCalls == 8

MaxPending == 3

ISAMRecords == {Record(k, 1, 1) : k \in 1..MaxISAMKey}

InitISAM ==
    /\ isam = NewISAM(ISAM_BLOCK_FACTOR, LEAF_INDEX_BLOCK_FACTOR,
                      ROOT_INDEX_BLOCK_FACTOR, CONSOLIDATION_THRESHOLD)
    /\ bpc = 0
    /\ bpu = 0
    /\ eh = 0
    /\ sf = 0
    /\ db = 0
    /\ perf = 0
    /\ calls = 0
    /\ live = {}
    /\ last = NoCall

\* the end of a call with outcome o: then is what live becomes when the call
\* returns true
ISAMReturn(op, arg, o, then) ==
    /\ calls < MaxISAMCalls
    /\ isam' = o.t
    /\ calls' = calls + 1
    /\ live' = IF o.raised = "" /\ o.data THEN then ELSE live
    /\ last' = Call(op, arg, o)
    /\ UNCHANGED <<perf, bpc, bpu, eh, sf, db>>

ISAMInsert(r) == ISAMReturn("insert", r.key, ISAM_insert(isam, r), live \cup {r})

ISAMDelete(k, pending) ==
    ISAMReturn("delete", k, ISAM_delete(isam, k, pending), WithoutKey(live, k))

NextISAM ==
    \/ \E r \in ISAMRecords : ISAMInsert(r)
    \/ \E k \in 1..MaxISAMKey : \E pending \in 0..MaxPending : ISAMDelete(k, pending)

SpecISAM == InitISAM /\ [][NextISAM]_vars

(***************************************************************************)
(* The ISAM index built with the smallest block factors, under which a few *)
(* calls free enough overflow pages for _should_rebuild to hold.           *)
(***************************************************************************)
SMALL_BLOCK_FACTOR == 1

MaxSmallCalls == 7

InitISAMSmall ==
    /\ isam = NewISAM(SMALL_BLOCK_FACTOR, SMALL_BLOCK_FACTOR, SMALL_BLOCK_FACTOR,
                      SMALL_BLOCK_FACTOR \div 3)
    /\ bpc = 0
    /\ bpu = 0
    /\ eh = 0
    /\ sf = 0
    /\ db = 0
    /\ perf = 0
    /\ calls = MaxISAMCalls - MaxSmallCalls
    /\ live = {}
    /\ last = NoCall

SpecISAMSmall == InitISAMSmall /\ [][NextISAM]_vars

(***************************************************************************)
(* The ISAM files as the words struct.pack writes (every field is a        *)
(* 4-byte int), and a second ISAMPrimaryIndex opened on the same files the *)
(* way DatabaseManager._load_metadata opens it: with the constructor's     *)
(* default block factors.  The new instance finds page n of a file at      *)
(* n times the page size its own block factor gives.                       *)
(***************************************************************************)
\* Page.HEADER_FORMAT, LeafIndex.HEADER_FORMAT, RootIndex.HEADER_FORMAT: "ii"
HEADER_WORDS == 2

\* LeafIndexEntry.FORMAT, RootIndexEntry.FORMAT: "ii"
ENTRY_WORDS == 2

\* Record.pack of a record with the INT fields key, name, city
Record_pack(r) == <<r.key, r.name, r.city>>

Record_unpack(w) == Record(w[1], w[2], w[3])

Entry_pack(e) == <<e.key, e.page>>

Entry_unpack(w) == [key |-> w[1], page |-> w[2]]

RECORD_WORDS == Len(Record_pack(NoRecord))

Zeros(n) == [i \in 1..n |-> 0]

\* b''.join
RECURSIVE Joined(_)
Joined(parts) == IF parts = <<>> THEN <<>> ELSE parts[1] \o Joined(Tail(parts))

Page_pack(page, block_factor) ==
    <<Len(page.records), page.next_page>>
        \o Joined([i \in 1..Len(page.records) |-> Record_pack(page.records[i])])
        \o Zeros(RECORD_WORDS * (block_factor - Len(page.records)))

\* LeafIndex.pack and RootIndex.pack
Index_pack(entries, next_page, block_factor) ==
    <<Len(entries), next_page>>
        \o Joined([i \in 1..Len(entries) |-> Entry_pack(entries[i])])
        \o Zeros(ENTRY_WORDS * (block_factor - Len(entries)))

\* the three files of the index t: the data file starts with a header word
DataFile(t) ==
    <<0>> \o Joined([i \in 1..Len(t.pages) |-> Page_pack(t.pages[i], t.bf)])

LeafIndexFile(t) ==
    Joined([i \in 1..Len(t.leaves) |->
                Index_pack(t.leaves[i].entries, t.leaves[i].next_page, t.lbf)])

RootIndexFile(t) == Index_pack(t.root, -1, t.rbf)

\* ISAMPrimaryIndex(table, filename): the files stay as they are, the block
\* factors are the defaults
Reopened(t, block_factor, leaf_index_block_factor, root_index_block_factor) ==
    [exists |-> t.exists, data |-> DataFile(t), leaf |-> LeafIndexFile(t),
     root |-> RootIndexFile(t), bf |-> block_factor,
     lbf |-> leaf_index_block_factor, rbf |-> root_index_block_factor]

\* file.seek(offset); file.read(size): short at the end of the file
ReadAt(file, offset, size) ==
    SubSeq(file, offset + 1,
           IF offset + size < Len(file) THEN offset + size ELSE Len(file))

\* what a read that raised struct.error (or OSError for a negative offset)
\* leaves
Unreadable == [ok |-> FALSE, entries |-> <<>>, next_page |-> -1]

\* Page.unpack, LeafIndex.unpack, RootIndex.unpack: the header, then size
\* items of width words each; a slice shorter than its format raises
Unpacked(data, width) ==
    IF Len(data) < HEADER_WORDS THEN Unreadable
    ELSE IF data[1] > 0 /\ HEADER_WORDS + data[1] * width > Len(data) THEN Unreadable
    ELSE [ok |-> TRUE,
          entries |-> [i \in 1..data[1] |->
                          SubSeq(data, HEADER_WORDS + (i - 1) * width + 1,
                                 HEADER_WORDS + i * width)],
          next_page |-> data[2]]

PageRead(file, offset, size, width) ==
    IF offset < 0 THEN Unreadable ELSE Unpacked(ReadAt(file, offset, size), width)

AsRecords(page) ==
    [page EXCEPT !.entries = [i \in 1..Len(page.entries) |-> Record_unpack(page.entries[i])]]

AsEntries(page) ==
    [page EXCEPT !.entries = [i \in 1..Len(page.entries) |-> Entry_unpack(page.entries[i])]]

Reopened_read_page(o, page_num) ==
    AsRecords(PageRead(o.data, 1 + page_num * (HEADER_WORDS + o.bf * RECORD_WORDS),
                       HEADER_WORDS + o.bf * RECORD_WORDS, RECORD_WORDS))

Reopened_read_leaf_index(o, page_num) ==
    AsEntries(PageRead(o.leaf, page_num * (HEADER_WORDS + o.lbf * ENTRY_WORDS),
                       HEADER_WORDS + o.lbf * ENTRY_WORDS, ENTRY_WORDS))

Reopened_read_root_index(o, page_num) ==
    AsEntries(PageRead(o.root, page_num * (HEADER_WORDS + o.rbf * ENTRY_WORDS),
                       HEADER_WORDS + o.rbf * ENTRY_WORDS, ENTRY_WORDS))

\* _search_in_page_chain: a read that raises ends the walk
RECURSIVE SearchChainOn(_, _, _, _, _)
Reopened_search_in_page_chain(o, current_page_num, key, visited) ==
    IF current_page_num = -1 \/ current_page_num \in visited THEN NoRecord
    ELSE SearchChainOn(o, current_page_num, key, visited,
                       Reopened_read_page(o, current_page_num))

SearchChainOn(o, current_page_num, key, visited, page) ==
    LET hits == {i \in 1..Len(page.entries) : page.entries[i].key = key}
    IN  IF ~page.ok THEN NoRecord
        ELSE IF hits # {}
        THEN page.entries[CHOOSE i \in hits : \A j \in hits : i <= j]
        ELSE Reopened_search_in_page_chain(o, page.next_page, key,
                                           visited \cup {current_page_num})

SearchFromLeaf(o, key, leaf_index) ==
    IF ~leaf_index.ok THEN Threw("error")
    ELSE Found(Reopened_search_in_page_chain(
                   o, find_data_page_for_key(leaf_index.entries, key), key, {}))

SearchFromRoot(o, key, root_index) ==
    IF ~root_index.ok THEN Threw("error")
    ELSE SearchFromLeaf(o, key,
             Reopened_read_leaf_index(o, find_leaf_page_for_key(root_index.entries, key)))

\* search of the reopened index: the record (NoRecord for None) or the
\* exception raised
Reopened_search(o, key) ==
    IF ~o.exists THEN Found(NoRecord)
    ELSE SearchFromRoot(o, key, Reopened_read_root_index(o, 0))

\* the chain walk of scan_all: a read that raises ends scan_all
RECURSIVE ScanChainOn(_, _, _, _, _)
Reopened_scan_chain(o, current_page_num, visited, results) ==
    IF current_page_num = -1 \/ current_page_num \in visited
    THEN [ok |-> TRUE, visited |-> visited, results |-> results]
    ELSE ScanChainOn(o, current_page_num, visited, results,
                     Reopened_read_page(o, current_page_num))

ScanChainOn(o, current_page_num, visited, results, page) ==
    IF ~page.ok THEN [ok |-> FALSE, visited |-> visited, results |-> results]
    ELSE Reopened_scan_chain(o, page.next_page, visited \cup {current_page_num},
                             results \o page.entries)

RECURSIVE ScanPagesOn(_, _, _, _)
Reopened_scan_pages(o, i, num_pages, c) ==
    IF ~c.ok THEN Threw("error")
    ELSE IF i >= num_pages THEN Found(c.results)
    ELSE ScanPagesOn(o, i, num_pages, c)

ScanPagesOn(o, i, num_pages, c) ==
    Reopened_scan_pages(o, i + 1, num_pages,
                        Reopened_scan_chain(o, i, c.visited, c.results))

Reopened_scan_all(o) ==
    IF ~o.exists \/ Len(o.data) < 1 THEN Found(<<>>)
    ELSE Reopened_scan_pages(o, 0,
             (Len(o.data) - 1) \div (HEADER_WORDS + o.bf * RECORD_WORDS),
             [ok |-> TRUE, visited |-> {}, results |-> <<>>])

(***************************************************************************)
(* An ISAM index built with the default block factors, filled with         *)
(* ascending keys, and read through a second instance opened on its files. *)
(* After a reopened read the first instance makes no more calls.           *)
(***************************************************************************)
WIDE_LEAF_INDEX_BLOCK_FACTOR == 2

MaxReopenCalls == 10

InitISAMReopen ==
    /\ isam = NewISAM(SMALL_BLOCK_FACTOR, WIDE_LEAF_INDEX_BLOCK_FACTOR,
                      SMALL_BLOCK_FACTOR, SMALL_BLOCK_FACTOR \div 3)
    /\ bpc = 0
    /\ bpu = 0
    /\ eh = 0
    /\ sf = 0
    /\ db = 0
    /\ perf = 0
    /\ calls = MaxISAMCalls - MaxReopenCalls
    /\ live = {}
    /\ last = NoCall

IsReopened == last.op \in {"reopened search", "reopened scan_all"}

\* the key above every key inserted and not deleted
NextKey ==
    IF live = {} THEN 1
    ELSE 1 + CHOOSE k \in {r.key : r \in live} : \A r \in live : r.key <= k

ReopenInsert(r) ==
    /\ ~IsReopened
    /\ r.key = NextKey
    /\ ISAMInsert(r)

ReopenDelete(k, pending) ==
    /\ ~IsReopened
    /\ ISAMDelete(k, pending)

ReopenedRead(op, arg, o) ==
    /\ calls < MaxISAMCalls
    /\ calls' = calls + 1
    /\ last' = [op |-> op, arg |-> arg, data |-> o.data, raised |-> o.raised,
                clean |-> last.clean]
    /\ UNCHANGED <<isam, live, perf, bpc, bpu, eh, sf, db>>

DefaultReopened(t) ==
    Reopened(t, SMALL_BLOCK_FACTOR, WIDE_LEAF_INDEX_BLOCK_FACTOR, SMALL_BLOCK_FACTOR)

ReopenedSearch(k) ==
    ReopenedRead("reopened search", k, Reopened_search(DefaultReopened(isam), k))

ReopenedScanAll ==
    ReopenedRead("reopened scan_all", 0, Reopened_scan_all(DefaultReopened(isam)))

NextISAMReopen ==
    \/ \E r \in ISAMRecords : ReopenInsert(r)
    \/ \E k \in 1..MaxISAMKey : \E pending \in 0..MaxPending : ReopenDelete(k, pending)
    \/ \E k \in 1..MaxISAMKey : ReopenedSearch(k)
    \/ ReopenedScanAll

SpecISAMReopen == InitISAMReopen /\ [][NextISAMReopen]_vars

(***************************************************************************)
(* Sequential file (src/indexes/sequential_file/sequential_file.py): the   *)
(* sorted main file, the unsorted auxiliary file, and the object's k,      *)
(* deleted_count and total_records.  A stored record carries its active    *)
(* flag.                                                                   *)
(***************************************************************************)
Stored(rec, active) == [rec |-> rec, active |-> active]

NewSequentialFile(k_rec) ==
    [main |-> <<>>, aux |-> <<>>, k |-> k_rec, deleted_count |-> 0, total_records |-> 0]

\* binary search of the main file: the position of the key, or -1
RECURSIVE MainPos(_, _, _, _)
MainPos(main, key, left, right) ==
    IF left <= right
    THEN LET mid == (left + right) \div 2
         IN  IF At(main, mid).rec.key = key THEN mid
             ELSE IF At(main, mid).rec.key < key
                  THEN MainPos(main, key, mid + 1, right)
                  ELSE MainPos(main, key, left, mid - 1)
    ELSE -1

\* the first position of the key in the auxiliary file, or -1
AuxPos(aux, key) ==
    LET hits == {i \in 1..Len(aux) : aux[i].rec.key = key}
    IN  IF hits = {} THEN -1 ELSE (CHOOSE i \in hits : \A j \in hits : i <= j) - 1

SeqFile_search(t, key) ==
    LET m == MainPos(t.main, key, 0, Len(t.main) - 1)
        a == AuxPos(t.aux, key)
    IN  IF m # -1
        THEN IF At(t.main, m).active THEN At(t.main, m).rec ELSE NoRecord
        ELSE IF a # -1
        THEN IF At(t.aux, a).active THEN At(t.aux, a).rec ELSE NoRecord
        ELSE NoRecord

ActiveRecords(file) ==
    LET pick[i \in 0..Len(file)] ==
            IF i = 0 THEN <<>>
            ELSE IF file[i].active THEN Append(pick[i - 1], file[i].rec) ELSE pick[i - 1]
    IN  pick[Len(file)]

SeqFile_scan_all(t) == ActiveRecords(t.main) \o ActiveRecords(t.aux)

\* int(math.log2(n)) for n >= 1
RECURSIVE FloorLog2(_)
FloorLog2(n) == IF n <= 1 THEN 0 ELSE 1 + FloorLog2(n \div 2)

update_k_dynamically(t) ==
    IF t.total_records > 0
    THEN [t EXCEPT !.k = IF FloorLog2(t.total_records) > 1
                         THEN FloorLog2(t.total_records) ELSE 1]
    ELSE t

SeqFile_rebuild(t) ==
    LET records == SortByKey(SeqFile_scan_all(t))
    IN  update_k_dynamically(
            [t EXCEPT !.main = [i \in 1..Len(records) |-> Stored(records[i], TRUE)],
                      !.aux = <<>>,
                      !.deleted_count = 0,
                      !.total_records = Len(records)])

\* insert: [t, data, raised]; a live key raises ValueError
SeqFile_insert(t, record) ==
    IF SeqFile_search(t, record.key) # NoRecord
    THEN [t |-> t, data |-> FALSE, raised |-> "ValueError"]
    ELSE LET t1 == [t EXCEPT !.aux = Append(t.aux, Stored(record, TRUE)),
                             !.total_records = t.total_records + 1]
         IN  [t |-> IF Len(t1.aux) > t1.k THEN SeqFile_rebuild(t1) ELSE t1,
              data |-> TRUE, raised |-> ""]

\* the end of a delete that found an active record: count it, rebuild when
\* deleted_count > total_records * 0.1
AfterTombstone(t) ==
    LET t1 == [t EXCEPT !.deleted_count = t.deleted_count + 1]
    IN  IF t1.total_records > 0 /\ t1.deleted_count * 10 > t1.total_records
        THEN SeqFile_rebuild(t1) ELSE t1

SeqFile_delete(t, key) ==
    LET m == MainPos(t.main, key, 0, Len(t.main) - 1)
        a == AuxPos(t.aux, key)
    IN  IF m # -1
        THEN IF At(t.main, m).active
             THEN [t |-> AfterTombstone([t EXCEPT !.main[m + 1].active = FALSE]),
                   data |-> TRUE, raised |-> ""]
             ELSE [t |-> t, data |-> FALSE, raised |-> ""]
        ELSE IF a # -1
        THEN IF At(t.aux, a).active
             THEN [t |-> AfterTombstone([t EXCEPT !.aux[a + 1].active = FALSE]),
                   data |-> TRUE, raised |-> ""]
             ELSE [t |-> t, data |-> FALSE, raised |-> ""]
        ELSE [t |-> t, data |-> FALSE, raised |-> ""]

\* the binary search of range_search: the last mid whose key reaches begin_key
RECURSIVE StartPos(_, _, _, _, _)
StartPos(main, begin_key, left, right, start_pos) ==
    IF left <= right
    THEN LET mid == (left + right) \div 2
         IN  IF At(main, mid).rec.key >= begin_key
             THEN StartPos(main, begin_key, left, mid - 1, mid)
             ELSE StartPos(main, begin_key, mid + 1, right, start_pos)
    ELSE start_pos

RECURSIVE RangeMain(_, _, _, _)
RangeMain(main, i, begin_key, end_key) ==
    IF i >= Len(main) THEN <<>>
    ELSE LET s == At(main, i)
         IN  IF s.active /\ begin_key <= s.rec.key /\ s.rec.key <= end_key
             THEN <<s.rec>> \o RangeMain(main, i + 1, begin_key, end_key)
             ELSE IF s.rec.key > end_key THEN <<>>
             ELSE RangeMain(main, i + 1, begin_key, end_key)

SeqFile_range_search(t, begin_key, end_key) ==
    LET in_aux == SelectSeq(ActiveRecords(t.aux),
                            LAMBDA r : begin_key <= r.key /\ r.key <= end_key)
        in_main == IF Len(t.main) > 0
                   THEN RangeMain(t.main, StartPos(t.main, begin_key, 0, Len(t.main) - 1, 0),
                                  begin_key, end_key)
                   ELSE <<>>
    IN  SortByKey(in_main \o in_aux)

\* SequentialFile.__init__ over the files of an earlier run
SeqFile_reopen(t, k_rec) ==
    [t EXCEPT !.k = k_rec, !.deleted_count = 0, !.total_records = 0]

K_REC == 2

MaxSFKey == 4

MaxSFCalls == 7

SFRecords == {Record(k, 1, 1) : k \in 1..MaxSFKey}

InitSF ==
    /\ sf = NewSequentialFile(K_REC)
    /\ bpc = 0
    /\ bpu = 0
    /\ eh = 0
    /\ isam = 0
    /\ db = 0
    /\ perf = 0
    /\ calls = 0
    /\ live = {}
    /\ last = NoCall

\* the end of a call with outcome o: then is what live becomes when the call
\* returns true
SFReturn(op, arg, o, then) ==
    /\ calls < MaxSFCalls
    /\ sf' = o.t
    /\ calls' = calls + 1
    /\ live' = IF o.raised = "" /\ o.data THEN then ELSE live
    /\ last' = Call(op, arg, o)
    /\ UNCHANGED <<perf, bpc, bpu, eh, isam, db>>

SFInsert(r) == SFReturn("insert", r.key, SeqFile_insert(sf, r), live \cup {r})

SFDelete(k) == SFReturn("delete", k, SeqFile_delete(sf, k), WithoutKey(live, k))

SFReopen ==
    /\ calls < MaxSFCalls
    /\ sf' = SeqFile_reopen(sf, K_REC)
    /\ calls' = calls + 1
    /\ last' = [last EXCEPT !.op = "reopen", !.arg = 0, !.data = TRUE, !.raised = ""]
    /\ UNCHANGED <<perf, bpc, bpu, eh, isam, db, live>>

NextSF ==
    \/ \E r \in SFRecords : SFInsert(r)
    \/ \E k \in 1..MaxSFKey : SFDelete(k)
    \/ SFReopen

SpecSF == InitSF /\ [][NextSF]_vars

(***************************************************************************)
(* DatabaseManager (src/indexes/core/database_manager.py) over one table   *)
(* with the fields key, name and city.  The table is                       *)
(*   [primary_type, primary_index, secondary_indexes, metadata, files]     *)
(* where secondary_indexes is the dict of the secondary indexes in the     *)
(* order of their creation, each [field, type, index], metadata is the     *)
(* secondary_indexes entry of the table in _metadata.json and files is the *)
(* set of the files of secondary indexes that exist.  The primary index   *)
(* is a sequential file or a clustered B+ tree; an index on name is an     *)
(* unclustered B+ tree, an index on city an extendible hash.               *)
(*                                                                         *)
(* A call of the manager is a run [d, log, raised, data, fault]: the       *)
(* table, the index operations performed so far, the exception that ended  *)
(* the call ("" for none), the value of the last operation and whether an  *)
(* I/O error of the file system was met.  An exception of an index         *)
(* operation is not caught by insert, delete and range_delete: the steps   *)
(* after it are skipped and what the steps before it wrote stays written.  *)
(***************************************************************************)
SecondaryIndex(field, type, index) == [field |-> field, type |-> type, index |-> index]

FieldOf(record, field) == IF field = "name" THEN record.name ELSE record.city

\* an index operation of a call: ok tells that it returned a true value,
\* changed that it left the index in another state
Event(idx, op, pk, ok, changed) ==
    [idx |-> idx, op |-> op, pk |-> pk, ok |-> ok, changed |-> changed]

NewRun(d) == [d |-> d, log |-> <<>>, raised |-> "", data |-> FALSE, fault |-> FALSE]

_create_primary_index(index_type) ==
    IF index_type = "SEQUENTIAL" THEN NewSequentialFile(K_REC)
    ELSE NewClusteredTree(Order)

_create_secondary_index(index_type) ==
    IF index_type = "HASH" THEN NewHash ELSE NewUnclusteredTree(Order)

\* the files the constructor of a secondary index creates and its
\* drop_index removes
IndexFiles(field, index_type) ==
    IF index_type = "HASH" THEN {<<field, "datos.dir">>, <<field, "datos.bkt">>}
    ELSE {<<field, "btree_unclustered.dat">>}

\* _save_metadata: the secondary indexes of the table as written to
\* _metadata.json
_save_metadata(d) ==
    [d EXCEPT !.metadata = [i \in 1..Len(d.secondary_indexes) |->
                               [field |-> d.secondary_indexes[i].field,
                                type |-> d.secondary_indexes[i].type]]]

create_table(primary_index_type) ==
    _save_metadata([primary_type |-> primary_index_type,
                    primary_index |-> _create_primary_index(primary_index_type),
                    secondary_indexes |-> <<>>,
                    metadata |-> <<>>,
                    files |-> {}])

\* the operations of the primary index, whatever its type: [t, data, raised]
Primary_insert(d, record) ==
    IF d.primary_type = "SEQUENTIAL" THEN SeqFile_insert(d.primary_index, record)
    ELSE BPC_insert(d.primary_index, record)

Primary_delete(d, key) ==
    IF d.primary_type = "SEQUENTIAL" THEN SeqFile_delete(d.primary_index, key)
    ELSE BPC_delete(d.primary_index, key)

\* the queries of the primary index: [data, raised], data a list of records
AsList(record) == IF record = NoRecord THEN <<>> ELSE <<record>>

Primary_search(d, key) ==
    IF d.primary_type = "SEQUENTIAL"
    THEN Found(AsList(SeqFile_search(d.primary_index, key)))
    ELSE BPC_search(d.primary_index, key)

Primary_range_search(d, start_key, end_key) ==
    IF d.primary_type = "SEQUENTIAL"
    THEN Found(SeqFile_range_search(d.primary_index, start_key, end_key))
    ELSE BPC_range_search(d.primary_index, start_key, end_key)

Primary_scan_all(d) ==
    IF d.primary_type = "SEQUENTIAL" THEN SeqFile_scan_all(d.primary_index)
    ELSE BPC_scan_all(d.primary_index)

\* the operations of a secondary index: [t, data, raised]
HashInserted(h) == IF h.err # "" THEN Raised(h, h.err) ELSE Outcome(h, TRUE)

Secondary_insert(s, value, pk) ==
    IF s.type = "HASH" THEN HashInserted(EH_insert(s.index, IndexRecord(value, pk)))
    ELSE BPU_insert(s.index, IndexRecord(value, pk))

\* delete(value, pk): data tells whether an entry was deleted
HashDeleted(o) == [t |-> o.t, data |-> Len(o.data) > 0, raised |-> o.raised]

Secondary_delete(s, value, pk) ==
    IF s.type = "HASH" THEN HashDeleted(EH_delete(s.index, value, pk))
    ELSE _delete_by_keys(s.index, value, pk)

\* delete(value): data is the list of the deleted pks
Secondary_delete_all(s, value) ==
    IF s.type = "HASH" THEN EH_delete(s.index, value, 0)
    ELSE _delete_all_by_secondary_key(s.index, value)

Secondary_search(s, value) ==
    IF s.type = "HASH" THEN EH_search(s.index, value) ELSE BPU_search(s.index, value)

\* the run after an operation of the primary index with outcome o
AfterPrimary(c, op, pk, o) ==
    [c EXCEPT !.d.primary_index = o.t,
              !.log = Append(@, Event("primary", op, pk, o.raised = "" /\ o.data,
                                      o.t # c.d.primary_index)),
              !.raised = o.raised,
              !.data = o.data]

\* the run after an operation of the i-th secondary index with outcome o
AfterSecondary(c, i, op, pk, o) ==
    [c EXCEPT !.d.secondary_indexes[i].index = o.t,
              !.log = Append(@, Event(c.d.secondary_indexes[i].field, op, pk,
                                      o.raised = "" /\ o.data,
                                      o.t # c.d.secondary_indexes[i].index)),
              !.raised = o.raised,
              !.data = o.data]

\* one index operation of a call, skipped when the call has raised already
PrimaryInsertStep(c, record) ==
    IF c.raised # "" THEN c
    ELSE AfterPrimary(c, "insert", record.key, Primary_insert(c.d, record))

PrimaryDeleteStep(c, key) ==
    IF c.raised # "" THEN c
    ELSE AfterPrimary(c, "delete", key, Primary_delete(c.d, key))

SecondaryInsertStep(c, i, record) ==
    IF c.raised # "" THEN c
    ELSE AfterSecondary(c, i, "insert", record.key,
                        Secondary_insert(c.d.secondary_indexes[i],
                                         FieldOf(record, c.d.secondary_indexes[i].field),
                                         record.key))

SecondaryDeleteStep(c, i, record) ==
    IF c.raised # "" THEN c
    ELSE AfterSecondary(c, i, "delete", record.key,
                        Secondary_delete(c.d.secondary_indexes[i],
                                         FieldOf(record, c.d.secondary_indexes[i].field),
                                         record.key))

\* the loop over the secondary indexes, from the i-th on
RECURSIVE InsertIntoSecondaries(_, _, _)
InsertIntoSecondaries(c, record, i) ==
    IF i > Len(c.d.secondary_indexes) THEN c
    ELSE InsertIntoSecondaries(SecondaryInsertStep(c, i, record), record, i + 1)

\* skip is the field whose index the loop leaves out ("" for none)
RECURSIVE DeleteFromSecondaries(_, _, _, _)
DeleteFromSecondaries(c, record, skip, i) ==
    IF i > Len(c.d.secondary_indexes) THEN c
    ELSE DeleteFromSecondaries(
             IF c.d.secondary_indexes[i].field = skip THEN c
             ELSE SecondaryDeleteStep(c, i, record),
             record, skip, i + 1)

\* the end of a call with its value (of no meaning when the call raised)
Return(c, data) == [c EXCEPT !.data = data]

\* the end of a call by an exception
Raise_(c, e) == [c EXCEPT !.raised = e]

\* insert after the insert into the primary index: a false result ends it
AfterPrimaryInsert(c, record) ==
    IF c.raised # "" \/ ~c.data THEN Return(c, FALSE)
    ELSE Return(InsertIntoSecondaries(c, record, 1), TRUE)

\* an insert that operates on the secondary indexes before the primary index
InsertSecondariesFirst(d, record) ==
    PrimaryInsertStep(InsertIntoSecondaries(NewRun(d), record, 1), record)

\* DatabaseManager.insert
DB_insert(d, record) == AfterPrimaryInsert(PrimaryInsertStep(NewRun(d), record), record)

\* the position of the index on field in secondary_indexes, 0 for none
IndexOn(d, field) ==
    IF \E i \in 1..Len(d.secondary_indexes) : d.secondary_indexes[i].field = field
    THEN CHOOSE i \in 1..Len(d.secondary_indexes) : d.secondary_indexes[i].field = field
    ELSE 0

\* the loop of search over the pks a secondary index returned
RECURSIVE FetchAll(_, _, _, _)
FetchOne(d, pks, i, out, r) ==
    IF r.raised # "" THEN r ELSE FetchAll(d, pks, i + 1, out \o r.data)

FetchAll(d, pks, i, out) ==
    IF i > Len(pks) THEN Found(out)
    ELSE FetchOne(d, pks, i, out, Primary_search(d, pks[i]))

Matching(records, field, value) == SelectSeq(records, LAMBDA r : FieldOf(r, field) = value)

\* DatabaseManager.search; field "key" stands for field_name = None
DB_search(d, value, field) ==
    IF field = "key" THEN Primary_search(d, value)
    ELSE IF IndexOn(d, field) # 0
    THEN FetchAll(d, Secondary_search(d.secondary_indexes[IndexOn(d, field)], value), 1, <<>>)
    ELSE Found(Matching(Primary_scan_all(d), field, value))

Counted(c, count) == IF c.raised = "" /\ c.data THEN count + 1 ELSE count

\* the loops of delete and range_delete over what is to delete, from the
\* i-th item on.  The items are records, or (lookup) primary keys whose
\* record the loop searches in the primary index first, going on with the
\* next when there is none.  For a record the loop deletes from every
\* secondary index but that on the field skip ("" for none) first, then
\* from the primary index; count counts the primary deletes that returned
\* true.
RECURSIVE DeleteEach(_, _, _, _, _, _)
DeleteEachOn(c, items, i, lookup, skip, count) ==
    DeleteEach(c, items, i + 1, lookup, skip, Counted(c, count))

DeleteItem(c, items, i, lookup, skip, count, search_result) ==
    IF search_result.raised # "" THEN Raise_(Return(c, count), search_result.raised)
    ELSE IF search_result.data = <<>>
    THEN DeleteEach(c, items, i + 1, lookup, skip, count)
    ELSE DeleteEachOn(PrimaryDeleteStep(
                          DeleteFromSecondaries(c, search_result.data[1], skip, 1),
                          IF lookup THEN items[i] ELSE items[i].key),
                      items, i, lookup, skip, count)

DeleteEach(c, items, i, lookup, skip, count) ==
    IF c.raised # "" \/ i > Len(items) THEN Return(c, count)
    ELSE DeleteItem(c, items, i, lookup, skip, count,
                    IF lookup THEN Primary_search(c.d, items[i]) ELSE Found(<<items[i]>>))

\* what delete is to delete: [c, items, lookup, skip, one]; one tells that
\* the call returns the result of its only primary delete, not a count
ToDelete(c, items, lookup, skip, one) ==
    [c |-> c, items |-> items, lookup |-> lookup, skip |-> skip, one |-> one]

\* delete by the primary key after its search
DeleteFound(d, search_result) ==
    ToDelete(IF search_result.raised # "" THEN Raise_(NewRun(d), search_result.raised)
             ELSE NewRun(d),
             search_result.data, FALSE, "", TRUE)

\* delete by an indexed field after the delete of the value from its index
DeleteByIndex(d, i, field, del_result) ==
    ToDelete(Return(AfterSecondary(NewRun(d), i, "delete_all", 0,
                                   [t |-> del_result.t, raised |-> del_result.raised,
                                    data |-> del_result.raised = ""]),
                    0),
             del_result.data, TRUE, field, FALSE)

\* the three branches of delete up to their loops; field "key" stands for
\* field_name = None
DeletePlan(d, value, field) ==
    IF field = "key" THEN DeleteFound(d, DB_search(d, value, "key"))
    ELSE IF IndexOn(d, field) # 0
    THEN DeleteByIndex(d, IndexOn(d, field), field,
                       Secondary_delete_all(d.secondary_indexes[IndexOn(d, field)], value))
    ELSE ToDelete(Return(NewRun(d), 0), Matching(Primary_scan_all(d), field, value),
                  FALSE, "", FALSE)

\* the result of delete, c being the run after the loop
DeleteResult(c, one) == IF one THEN Return(c, c.raised = "" /\ c.data = 1) ELSE c

RunDelete(p) == DeleteResult(DeleteEach(p.c, p.items, 1, p.lookup, p.skip, 0), p.one)

\* DatabaseManager.delete
DB_delete(d, value, field) == RunDelete(DeletePlan(d, value, field))

\* DatabaseManager.range_delete with field_name = None
RangeDeleteFound(d, search_result) ==
    IF search_result.raised # "" THEN Raise_(Return(NewRun(d), 0), search_result.raised)
    ELSE DeleteEach(Return(NewRun(d), 0), search_result.data, 1, FALSE, "", 0)

DB_range_delete(d, start_key, end_key) ==
    RangeDeleteFound(d, Primary_range_search(d, start_key, end_key))

\* create_index up to the population: the new index is in the dict and its
\* files exist
WithNewIndex(d, field, index_type) ==
    [d EXCEPT !.secondary_indexes =
                  Append(@, SecondaryIndex(field, index_type,
                                           _create_secondary_index(index_type))),
              !.files = @ \cup IndexFiles(field, index_type)]

\* an insert into the i-th secondary index that meets an I/O error when it
\* opens the index file: the hash raises it, the tree catches it and
\* returns False
FailedInsert(c, i, record) ==
    AfterSecondary([c EXCEPT !.fault = TRUE], i, "insert", record.key,
                   [t |-> c.d.secondary_indexes[i].index, data |-> FALSE,
                    raised |-> IF c.d.secondary_indexes[i].type = "HASH"
                               THEN "OSError" ELSE ""])

\* the for loop of create_index over the existing records, from the n-th on;
\* the I/O error, if any, meets the insert of record number fault - 1
RECURSIVE Populate(_, _, _, _, _)
Populate(c, i, records, n, fault) ==
    IF c.raised # "" \/ n > Len(records) THEN c
    ELSE Populate(IF fault = n + 1 THEN FailedInsert(c, i, records[n])
                  ELSE SecondaryInsertStep(c, i, records[n]),
                  i, records, n + 1, fault)

\* the try block of create_index; fault = 1 is an I/O error in scan_all
TryPopulate(d1, fault) ==
    IF fault = 1 THEN [NewRun(d1) EXCEPT !.raised = "OSError", !.fault = TRUE]
    ELSE Populate(NewRun(d1), Len(d1.secondary_indexes), Primary_scan_all(d1), 1, fault)

\* an except block that raises without removing the index and its files
RaiseOnly(c, field, index_type) == [c EXCEPT !.raised = "ValueError"]

\* the except block of create_index: the index leaves the dict, drop_index
\* removes its files, ValueError is raised
RollBackIndex(c, field, index_type) ==
    [c EXCEPT !.d.secondary_indexes = SelectSeq(@, LAMBDA s : s.field # field),
              !.d.files = @ \ IndexFiles(field, index_type),
              !.raised = "ValueError"]

AfterPopulate(c, field, index_type) ==
    IF c.raised # "" THEN RollBackIndex(c, field, index_type)
    ELSE Return([c EXCEPT !.d = _save_metadata(@)], TRUE)

\* DatabaseManager.create_index for the index types BTREE and HASH
DB_create_index(d, field, index_type, fault) ==
    AfterPopulate(TryPopulate(WithNewIndex(d, field, index_type), fault), field, index_type)

(***************************************************************************)
(* The manager under every sequence of calls on one table, whose primary   *)
(* index is of either type.  last holds, besides the call and              *)
(* its result, the log of its index operations; clean tells that no call   *)
(* has raised and no I/O error was met so far; live is not used.           *)
(***************************************************************************)
MaxDBKey == 3

MaxDBName == 2

MaxDBCalls == 5

MaxFault == 3

PrimaryTypes == {"SEQUENTIAL", "BTREE"}

DBFields == {"name", "city"}

DBCities == {1, 3}

DBRecords == {Record(k, n, c) : k \in 1..MaxDBKey, n \in 1..MaxDBName, c \in DBCities}

ValuesOf(field) ==
    IF field = "key" THEN 1..MaxDBKey
    ELSE IF field = "name" THEN 1..MaxDBName ELSE DBCities

TypeFor(field) == IF field = "name" THEN "BTREE" ELSE "HASH"

DBCall(op, field, arg, c) ==
    [op |-> op, field |-> field, arg |-> arg, data |-> c.data, raised |-> c.raised,
     clean |-> last.clean /\ c.raised = "" /\ ~c.fault, log |-> c.log, fault |-> c.fault]

NoDBCall ==
    [op |-> "none", field |-> "key", arg |-> 0, data |-> FALSE, raised |-> "",
     clean |-> TRUE, log |-> <<>>, fault |-> FALSE]

InitDB ==
    /\ db \in {create_table(type) : type \in PrimaryTypes}
    /\ perf = 0
    /\ bpc = 0
    /\ bpu = 0
    /\ eh = 0
    /\ isam = 0
    /\ sf = 0
    /\ calls = 0
    /\ live = {}
    /\ last = NoDBCall

DBReturn(op, field, arg, c) ==
    /\ calls < MaxDBCalls
    /\ calls' = calls + 1
    /\ db' = c.d
    /\ last' = DBCall(op, field, arg, c)
    /\ UNCHANGED <<perf, bpc, bpu, eh, isam, sf, live>>

DBInsert(r) == DBReturn("insert", "key", r, DB_insert(db, r))

\* delete by the primary key (field "key") or by another field
DBDelete(field, v) == DBReturn("delete", field, v, DB_delete(db, v, field))

DBRangeDelete(lo, hi) ==
    DBReturn("range_delete", "key", <<lo, hi>>, DB_range_delete(db, lo, hi))

DBCreateIndex(field, fault) ==
    /\ IndexOn(db, field) = 0
    /\ DBReturn("create_index", field, TypeFor(field),
                DB_create_index(db, field, TypeFor(field), fault))

NextDB ==
    \/ \E r \in DBRecords : DBInsert(r)
    \/ \E field \in {"key"} \cup DBFields : \E v \in ValuesOf(field) : DBDelete(field, v)
    \/ \E lo \in 1..MaxDBKey : \E hi \in lo..MaxDBKey : DBRangeDelete(lo, hi)
    \/ \E field \in DBFields : \E fault \in 0..MaxFault : DBCreateIndex(field, fault)

SpecDB == InitDB /\ [][NextDB]_vars

(***************************************************************************)
(* PerformanceTracker: the read and write counters every index carries.    *)
(* An index operation calls start_operation, then track_read and           *)
(* track_write once per page or record it touches, then end_operation;     *)
(* an operation that calls another one (insert calling search, rebuild     *)
(* calling scan_all) starts the inner operation while its own is open.     *)
(***************************************************************************)
\* time.time(): an instant, never 0
Now == 1

\* reset
NewTracker ==
    [reads |-> 0, writes |-> 0, start_time |-> 0, operation_stack |-> <<>>,
     rebuild_occurred |-> FALSE]

OperationResult(data, disk_reads, disk_writes, rebuild_triggered) ==
    [data |-> data, disk_reads |-> disk_reads, disk_writes |-> disk_writes,
     total_disk_accesses |-> disk_reads + disk_writes,
     rebuild_triggered |-> rebuild_triggered]

Saved(p) ==
    [reads |-> p.reads, writes |-> p.writes, start_time |-> p.start_time,
     rebuild_occurred |-> p.rebuild_occurred]

start_operation(p) ==
    IF p.start_time # 0
    THEN [p EXCEPT !.operation_stack = Append(@, Saved(p)), !.start_time = Now]
    ELSE [p EXCEPT !.reads = 0, !.writes = 0, !.rebuild_occurred = FALSE,
                   !.start_time = Now]

track_read(p) == [p EXCEPT !.reads = @ + 1]

track_write(p) == [p EXCEPT !.writes = @ + 1]

\* the branch of end_operation taken when the stack holds previous_state
EndNested(p, result_data, previous_state, rebuild_occurred) ==
    [t |-> [reads |-> previous_state.reads + p.reads,
            writes |-> previous_state.writes + p.writes,
            start_time |-> previous_state.start_time,
            operation_stack |-> ButLast(p.operation_stack),
            rebuild_occurred |-> rebuild_occurred \/ previous_state.rebuild_occurred],
     data |-> OperationResult(result_data,
                  (previous_state.reads + p.reads) - previous_state.reads,
                  (previous_state.writes + p.writes) - previous_state.writes,
                  rebuild_occurred \/ previous_state.rebuild_occurred)]

\* the tracker after the call and the OperationResult returned
end_operation(p, result_data, rebuild_triggered) ==
    IF p.operation_stack # <<>>
    THEN EndNested(p, result_data, Last(p.operation_stack),
                   rebuild_triggered \/ p.rebuild_occurred)
    ELSE [t |-> NewTracker,
          data |-> OperationResult(result_data, p.reads, p.writes,
                                   rebuild_triggered \/ p.rebuild_occurred)]

\* the deepest nesting of operations (insert, rebuild, scan_all) and the
\* number of tracker calls in a run
MaxDepth == 3

MaxPerfCalls == 8

\* history: for every operation that is open, the track_read and track_write
\* calls made since it started
Tracked(reads, writes) == [reads |-> reads, writes |-> writes]

CountRead(open) == [i \in 1..Len(open) |-> [open[i] EXCEPT !.reads = @ + 1]]

CountWrite(open) == [i \in 1..Len(open) |-> [open[i] EXCEPT !.writes = @ + 1]]

PerfCall(op, arg, data) ==
    [op |-> op, arg |-> arg, data |-> data, raised |-> "", clean |-> TRUE]

InitPerf ==
    /\ perf = NewTracker
    /\ bpc = 0
    /\ bpu = 0
    /\ eh = 0
    /\ isam = 0
    /\ sf = 0
    /\ db = 0
    /\ calls = 0
    /\ live = <<>>
    /\ last = NoCall

PerfStep(op, arg, p, open, data) ==
    /\ calls < MaxPerfCalls
    /\ calls' = calls + 1
    /\ perf' = p
    /\ live' = open
    /\ last' = PerfCall(op, arg, data)
    /\ UNCHANGED <<bpc, bpu, eh, isam, sf, db>>

PerfStart ==
    /\ Len(live) < MaxDepth
    /\ PerfStep("start_operation", FALSE, start_operation(perf),
                Append(live, Tracked(0, 0)), FALSE)

PerfRead ==
    /\ live # <<>>
    /\ PerfStep("track_read", FALSE, track_read(perf), CountRead(live), FALSE)

PerfWrite ==
    /\ live # <<>>
    /\ PerfStep("track_write", FALSE, track_write(perf), CountWrite(live), FALSE)

PerfEnded(rebuild_triggered, o) ==
    PerfStep("end_operation", rebuild_triggered, o.t, ButLast(live), o.data)

PerfEnd(rebuild_triggered) ==
    /\ live # <<>>
    /\ PerfEnded(rebuild_triggered, end_operation(perf, TRUE, rebuild_triggered))

NextPerf ==
    \/ PerfStart
    \/ PerfRead
    \/ PerfWrite
    \/ \E rebuild_triggered \in BOOLEAN : PerfEnd(rebuild_triggered)

SpecPerf == InitPerf /\ [][NextPerf]_vars

(***************************************************************************)
(* Properties of the primary and secondary indexes used on their own.      *)
(***************************************************************************)
\* the keys of the records inserted and not deleted
LiveKeys == {r.key : r \in live}

\* the primary keys stored with secondary value v and not deleted
LivePks(v) == {e.pk : e \in {x \in live : x.key = v}}

\* s lists the elements of S, each once
ListsExactly(s, S) == SetOf(s) = S /\ Len(s) = Cardinality(S)

\* C2: round trip of a primary index (here ISAM): after a delete(k) that
\* returned true, search(k) finds no record and scan_all() holds no record
\* with key k.
C2_DeletedIsGone ==
    (last.op = "delete" /\ last.raised = "" /\ last.data) =>
        /\ ISAM_search(isam, last.arg) = NoRecord
        /\ last.arg \notin SetOf(KeysOf(ISAM_scan_all(isam)))

\* C3: after inserts and deletes none of which raised, search of the
\* clustered B+ tree does not raise, and finds key k exactly when k was
\* inserted and not deleted.
C3_SearchFindsLive ==
    last.clean =>
        \A k \in Keys :
            /\ BPC_search(bpc, k).raised = ""
            /\ (BPC_search(bpc, k).data # <<>>) <=> (k \in LiveKeys)

\* C4: after inserts and deletes none of which raised, search(v) of the
\* unclustered B+ tree returns exactly the primary keys stored with v and not
\* deleted.
C4_SearchReturnsLivePks ==
    last.clean =>
        \A v \in Values : SetOf(BPU_search(bpu, v)) = LivePks(v)

\* C5: after inserts and deletes none of which raised, search(v) of the
\* extendible hash returns exactly the primary keys stored with v and not
\* deleted.
C5_HashSearchReturnsLivePks ==
    last.clean =>
        \A v \in HashValues : SetOf(EH_search(eh, v)) = LivePks(v)

\* C7: the insert of a record whose key is live in a primary index (here the
\* sequential file) does not raise, returns false and leaves the files as
\* they were.
C7_DuplicateInsertFails ==
    [][(last'.op = "insert" /\ last'.arg \in LiveKeys)
          => (last'.raised = "" /\ last'.data = FALSE /\ sf' = sf)]_vars

\* C9: after inserts and deletes none of which raised, range_search(lo, hi)
\* of the clustered B+ tree returns, without raising, the records of
\* scan_all() whose key is in [lo, hi], in ascending order of the key.
C9_RangeIsFilteredScan ==
    last.clean =>
    \A lo \in Keys : \A hi \in lo..MaxKey :
        /\ BPC_range_search(bpc, lo, hi).raised = ""
        /\ BPC_range_search(bpc, lo, hi).data
               = SelectSeq(BPC_scan_all(bpc), LAMBDA r : lo <= r.key /\ r.key <= hi)
        /\ \A i \in 1..(Len(BPC_range_search(bpc, lo, hi).data) - 1) :
               BPC_range_search(bpc, lo, hi).data[i].key
                   < BPC_range_search(bpc, lo, hi).data[i + 1].key

\* C10: after inserts and deletes none of which raised, range_search(lo, hi)
\* of the ISAM index returns exactly the live records with key in [lo, hi],
\* in ascending order of the key.
C10_ISAMRangeReturnsLive ==
    last.clean =>
    \A lo \in 1..MaxISAMKey : \A hi \in lo..MaxISAMKey :
        /\ ListsExactly(ISAM_range_search(isam, lo, hi),
                        {r \in live : lo <= r.key /\ r.key <= hi})
        /\ \A i \in 1..(Len(ISAM_range_search(isam, lo, hi)) - 1) :
               ISAM_range_search(isam, lo, hi)[i].key
                   < ISAM_range_search(isam, lo, hi)[i + 1].key

\* what scan_all() of the ISAM index t returns is every key of S exactly once
ScanIsExactly(t, S) == ListsExactly(KeysOf(ISAM_scan_all(t)), {r.key : r \in S})

\* C11: scan_all() of the ISAM index returns every live record exactly once,
\* so its length is the number of live keys; in particular a delete that
\* returns true in a state where this holds (no call has raised so far)
\* leaves a state where it holds, also when the delete consolidates a page
\* with its overflow page or frees an overflow page.
C11_ScanReturnsLiveOnce ==
    [][(last'.op = "delete" /\ last'.clean /\ last'.data /\ ScanIsExactly(isam, live))
          => ScanIsExactly(isam', live')]_vars

\* the keys of the active records of main.dat and aux.dat, file by file
ActiveKeys(t) == KeysOf(SeqFile_scan_all(t))

\* C12: no two active records of main.dat and aux.dat together have the same
\* key, and an insert of a key that has an active record is rejected (it adds
\* no record).
C12_ActiveKeysUnique ==
    /\ [](Len(ActiveKeys(sf)) = Cardinality(SetOf(ActiveKeys(sf))))
    /\ [][(last'.op = "insert" /\ last'.arg \in SetOf(ActiveKeys(sf)))
             => (~(last'.raised = "" /\ last'.data) /\ ActiveKeys(sf') = ActiveKeys(sf))]_vars

\* file holds a record with key k whose active flag is a
HoldsKey(file, k, a) == \E i \in 1..Len(file) : file[i].rec.key = k /\ file[i].active = a

\* C13: when main.dat holds an inactive record with key k and aux.dat holds
\* an active record with key k, search(k) returns the active record, and
\* delete(k) returns true and leaves no active record with key k.
C13_SearchSkipsInactive ==
    \A k \in 1..MaxSFKey :
        (HoldsKey(sf.main, k, FALSE) /\ HoldsKey(sf.aux, k, TRUE)) =>
            /\ SeqFile_search(sf, k) # NoRecord
            /\ SeqFile_search(sf, k).key = k
            /\ SeqFile_delete(sf, k).data
            /\ k \notin SetOf(ActiveKeys(SeqFile_delete(sf, k).t))

\* the keys of s are strictly ascending
StrictlyAscending(s) == \A i \in 1..(Len(s) - 1) : s[i] < s[i + 1]

\* every record of the file is active
AllActive(file) == \A i \in 1..Len(file) : file[i].active

\* C14: after an insert that returned, aux.dat holds at most k records, k
\* being the threshold when the call started; when the insert made aux.dat
\* longer than k, main.dat afterwards holds all the active records in
\* strictly ascending order of the key, aux.dat is empty and k is
\* max(1, floor(log2(total_records))).
C14_AuxBoundAndRebuild ==
    [][(last'.op = "insert" /\ last'.raised = "" /\ last'.data) =>
          /\ Len(sf'.aux) <= sf.k
          /\ (Len(sf.aux) + 1 > sf.k) =>
                /\ sf'.aux = <<>>
                /\ AllActive(sf'.main)
                /\ SetOf(ActiveKeys(sf')) = SetOf(ActiveKeys(sf)) \cup {last'.arg}
                /\ StrictlyAscending(ActiveKeys(sf'))
                /\ sf'.k = IF FloorLog2(sf'.total_records) > 1
                           THEN FloorLog2(sf'.total_records) ELSE 1]_vars

\* the number of copies of entry e in the chains of the hash h
RECURSIVE CountOf(_, _)
CountOf(s, x) == IF s = <<>> THEN 0 ELSE (IF Head(s) = x THEN 1 ELSE 0) + CountOf(Tail(s), x)

\* C15: an insert of a pair (v, pk) that the chain for v already holds
\* succeeds and writes nothing: no bucket is split, the directory is not
\* doubled, and the index holds one copy of the pair.
C15_DuplicateInsertIsNoOp ==
    [][(last'.op = "insert" /\ last.clean
           /\ last'.arg.pk \in SetOf(EH_search(eh, last'.arg.key)))
          => (last'.raised = "" /\ last'.data /\ eh' = eh
                 /\ CountOf(EH_search(eh', last'.arg.key), last'.arg.pk) = 1)]_vars

\* the entries of list after are those of list before without one copy of e
WithoutOne(before, after, e) ==
    \A x \in SetOf(before) \cup SetOf(after) \cup {e} :
        CountOf(after, x) = CountOf(before, x) - (IF x = e THEN 1 ELSE 0)

\* C16: delete(v, pk) of the unclustered B+ tree returns true and removes
\* exactly the one index record (v, pk) when a leaf holds that pair; it
\* returns false and changes nothing when no leaf holds it.
C16_PairDeleteRemovesThePair ==
    [][(last'.op = "delete" /\ last.clean) =>
          IF last'.arg \in SetOf(BPU_entries(bpu))
          THEN /\ last'.raised = ""
               /\ last'.data
               /\ WithoutOne(BPU_entries(bpu), BPU_entries(bpu'), last'.arg)
          ELSE /\ last'.raised = ""
               /\ ~last'.data
               /\ bpu' = bpu]_vars

\* the primary keys of the entries of list s that carry value v
PksOf(s, v) == {s[i].pk : i \in {j \in 1..Len(s) : s[j].key = v}}

\* C17: delete(v) of the unclustered B+ tree removes every index record with
\* value v and no other, returns exactly the primary keys of the removed
\* records, and search(v) afterwards returns the empty list.
C17_MultiDeleteRemovesAll ==
    [][(last'.op = "delete_all" /\ last.clean) =>
          /\ last'.raised = ""
          /\ PksOf(BPU_entries(bpu'), last'.arg) = {}
          /\ SetOf(last'.data) = PksOf(BPU_entries(bpu), last'.arg)
          /\ SelectSeq(BPU_entries(bpu'), LAMBDA e : e.key # last'.arg)
                = SelectSeq(BPU_entries(bpu), LAMBDA e : e.key # last'.arg)
          /\ BPU_search(bpu', last'.arg) = <<>>]_vars

\* the pair (v, pk) is one that the call recorded in c was asked to remove
AskedToRemove(c, v, pk) ==
    \/ c.op = "delete" /\ c.arg = IndexRecord(v, pk)
    \/ c.op = "delete_all" /\ c.arg = v

\* C18: a delete(v, pk) or delete(v) of the extendible hash that returns
\* keeps every pair it was not asked to remove: a pair that search returned
\* before the call is returned by search after it.
C18_DeleteKeepsTheRest ==
    [][(last'.op \in {"delete", "delete_all"} /\ last'.clean) =>
          \A v \in HashValues : \A pk \in 1..MaxHashPk :
              (pk \in SetOf(EH_search(eh, v)) /\ ~AskedToRemove(last', v, pk))
                  => pk \in SetOf(EH_search(eh', v))]_vars

\* search and scan_all of the ISAM index t agree with the set S of records:
\* scan_all() returns every record of S exactly once and search finds
\* exactly the keys of S
AgreesWith(t, S) ==
    /\ ScanIsExactly(t, S)
    /\ \A k \in 1..MaxISAMKey : (ISAM_search(t, k) # NoRecord) <=> (k \in {r.key : r \in S})

\* C19: a rebuild that runs inside an insert or a delete completes without
\* error and keeps the table: when search and scan_all agreed with the live
\* records before the call, they agree with the live records after it.
C19_RebuildKeepsTheTable ==
    [][(isam'.rebuilt /\ last.clean /\ AgreesWith(isam, live))
          => (last'.raised = "" /\ AgreesWith(isam', live'))]_vars

(***************************************************************************)
(* Properties of the DatabaseManager.                                      *)
(***************************************************************************)
\* the (value, pk) entries a secondary index stores, as a list: the leaf
\* chain of the tree, the bucket chains of the hash that the directory
\* leads to
RECURSIVE ListOf(_)
ListOf(S) ==
    IF S = {} THEN <<>>
    ELSE LET x == CHOOSE y \in S : TRUE IN <<x>> \o ListOf(S \ {x})

RECURSIVE ChainsOf(_, _, _)
ChainsOf(h, heads, i) ==
    IF i > Len(heads) THEN <<>>
    ELSE ChainRecords(h, read_bucket(h, heads[i]), Len(h.buckets)) \o ChainsOf(h, heads, i + 1)

Secondary_entries(s) ==
    IF s.type = "HASH" THEN ChainsOf(s.index, ListOf(SetOf(s.index.dir)), 1)
    ELSE BPU_entries(s.index)

\* the (record.f, record.key) pairs of the records of the primary index
PairsOf(scan, field) ==
    [j \in 1..Len(scan) |-> IndexRecord(FieldOf(scan[j], field), scan[j].key)]

SameMultiset(s, t) ==
    \A e \in SetOf(s) \cup SetOf(t) : CountOf(s, e) = CountOf(t, e)

C1_SecondariesAgreeWithPrimary ==
    last.clean =>
        \A i \in 1..Len(db.secondary_indexes) :
            SameMultiset(Secondary_entries(db.secondary_indexes[i]),
                         PairsOf(Primary_scan_all(db), db.secondary_indexes[i].field))

\* C6: a delete by an indexed field f with value v that returns, no call
\* having raised, leaves no record with f = v in the primary index, makes
\* search by f = v return no record, and returns the number of records by
\* which the primary index got smaller.
C6_DeleteByIndexedField ==
    [][(last'.op = "delete" /\ last'.field # "key" /\ IndexOn(db, last'.field) # 0
            /\ last'.clean) =>
           /\ Matching(Primary_scan_all(db'), last'.field, last'.arg) = <<>>
           /\ DB_search(db', last'.arg, last'.field) = Found(<<>>)
           /\ last'.data = Len(Primary_scan_all(db)) - Len(Primary_scan_all(db'))]_vars

\* the index operations of a call that changed a secondary index
ChangedSecondary(e) == e.idx # "primary" /\ e.changed

\* the primary index operation at position j of the log succeeded for pk
PrimaryDone(log, j, pk) == log[j].idx = "primary" /\ log[j].pk = pk /\ log[j].ok

\* C8 as stated: in every insert, delete and range_delete, an operation
\* that changes a secondary index for a record comes after the operation of
\* the primary index for that record has succeeded; an insert that fails in
\* the primary index leaves the secondary indexes unchanged.
C8_PrimaryFirstInEveryCall ==
    [][(last'.op \in {"insert", "delete", "range_delete"} /\ last'.clean) =>
           /\ \A j \in 1..Len(last'.log) :
                  ChangedSecondary(last'.log[j]) =>
                      \E i \in 1..(j - 1) : PrimaryDone(last'.log, i, last'.log[j].pk)
           /\ (last'.op = "insert" /\ ~last'.data) =>
                  db'.secondary_indexes = db.secondary_indexes]_vars

\* C8, amended: insert operates on the primary index first and on no
\* secondary index unless the primary insert returned true, so that an
\* insert that fails in the primary index leaves the secondary indexes
\* unchanged; delete and range_delete operate on the secondary indexes
\* first: the delete of a record from the primary index comes after every
\* operation of the call on a secondary index for that record, and after
\* the multi-delete of a delete by an indexed field.
C8_InsertPrimaryFirstDeletePrimaryLast ==
    [][/\ (last'.op = "insert") =>
              /\ Len(last'.log) >= 1
              /\ last'.log[1].idx = "primary"
              /\ \A j \in 2..Len(last'.log) : last'.log[j].idx # "primary"
              /\ ~PrimaryDone(last'.log, 1, last'.arg.key) =>
                     /\ Len(last'.log) = 1
                     /\ db'.secondary_indexes = db.secondary_indexes
       /\ (last'.op \in {"delete", "range_delete"} /\ last'.clean) =>
              \A j \in 1..Len(last'.log) :
                  last'.log[j].idx = "primary" =>
                      /\ \A i \in (j + 1)..Len(last'.log) :
                             last'.log[i].pk # last'.log[j].pk /\ last'.log[i].op # "delete_all"
                      /\ Len(db.secondary_indexes) > 0 =>
                             \E i \in 1..(j - 1) : last'.log[i].idx # "primary"]_vars

\* an insert into a table with a filled secondary index failed in the
\* primary index without raising: the primary insert is its only operation
C8_Witness ==
    /\ last.op = "insert"
    /\ last.raised = ""
    /\ ~last.data
    /\ Len(last.log) = 1
    /\ Len(db.secondary_indexes) > 0
    /\ Secondary_entries(db.secondary_indexes[1]) # <<>>

(***************************************************************************)
(* Properties of the PerformanceTracker.                                   *)
(***************************************************************************)
\* C21: the disk_reads and disk_writes of the OperationResult that
\* end_operation returns are the numbers of track_read and track_write calls
\* made since the matching start_operation, also when the operation started
\* other operations after it had counted reads or writes of its own.
C21_CostIsTrackCalls ==
    [][(last'.op = "end_operation" /\ calls' = calls + 1) =>
          /\ last'.data.disk_reads = Last(live).reads
          /\ last'.data.disk_writes = Last(live).writes]_vars

(***************************************************************************)
(* Properties of an ISAM index reopened on its files.                      *)
(***************************************************************************)
\* C22: a new ISAMPrimaryIndex opened on the files of an index, also of one
\* whose rebuild has changed the block factors, returns from search and from
\* scan_all what the index that wrote the files returns.
C22_ReopenedReadsTheSame ==
    /\ last.op = "reopened search" =>
           /\ last.raised = ""
           /\ last.data = ISAM_search(isam, last.arg)
    /\ last.op = "reopened scan_all" =>
           /\ last.raised = ""
           /\ last.data = ISAM_scan_all(isam)

(***************************************************************************)
(* Properties of the shape of the B+ trees.                                *)
(***************************************************************************)
\* the ids of the leaves met from a leaf on through next_leaf_id (forward)
\* or prev_leaf_id
RECURSIVE LeafWalk(_, _, _, _, _)
LeafWalk(t, current, forward, out, fuel) ==
    IF current.kind # "leaf" \/ fuel = 0 THEN out
    ELSE LeafWalk(t, _read_node(t, IF forward THEN current.next ELSE current.prev),
                  forward, Append(out, current.id), fuel - 1)

ForwardWalk(t) ==
    LeafWalk(t, LeftmostFrom(t, _read_node(t, t.root), Len(t.nodes) + 1), TRUE, <<>>,
             Len(t.nodes) + 1)

BackwardWalk(t, forward_walk) ==
    IF forward_walk = <<>> THEN <<>>
    ELSE LeafWalk(t, _read_node(t, Last(forward_walk)), FALSE, <<>>, Len(t.nodes) + 1)

Reversed(s) == [i \in 1..Len(s) |-> s[Len(s) + 1 - i]]

\* the leaves stored in the node file
LeafIds(t) == {i \in 1..Len(t.nodes) : t.nodes[i].kind = "leaf"}

NonDecreasing(keys) == \A i \in 1..(Len(keys) - 1) : keys[i] <= keys[i + 1]

ChainIsSorted(t, walk) ==
    /\ Len(walk) = Cardinality(SetOf(walk))
    /\ SetOf(walk) = LeafIds(t)
    /\ NonDecreasing(Joined([i \in 1..Len(walk) |-> t.nodes[walk[i]].keys]))
    /\ BackwardWalk(t, walk) = Reversed(walk)

SortedLeafChain(t) == ChainIsSorted(t, ForwardWalk(t))

\* The sorted leaf chain in every state of the clustered tree.
ClusteredLeafChainSorted == bpc.nodes # <<>> => SortedLeafChain(bpc)

\* C23: in every state of the unclustered tree the walk from the leftmost
\* leaf through next_leaf_id visits every leaf once, with non-decreasing
\* keys, and the walk back through prev_leaf_id visits the same leaves in the
\* reverse order.
C23_SortedLeafChainUnclustered == bpu.nodes # <<>> => SortedLeafChain(bpu)

\* the nodes of the tree other than its root
NonRootNodes(t) ==
    {i \in 1..Len(t.nodes) : t.nodes[i].kind \in {"leaf", "internal"} /\ i # t.root}

Occupancy(t) ==
    \A i \in NonRootNodes(t) :
        /\ min_keys(t) <= Len(t.nodes[i].keys)
        /\ Len(t.nodes[i].keys) <= max_keys(t)

\* A clustered tree of an odd order.
ODD_ORDER == 3

InitBPCOdd ==
    /\ bpc = NewClusteredTree(ODD_ORDER)
    /\ bpu = 0
    /\ eh = 0
    /\ isam = 0
    /\ sf = 0
    /\ db = 0
    /\ perf = 0
    /\ calls = 0
    /\ live = {}
    /\ last = NoCall

SpecBPCOdd == InitBPCOdd /\ [][NextBPC]_vars

\* C24: after every insert or delete, every node of the tree other than the
\* root holds at least min_keys and at most max_keys keys, for a tree of an
\* odd order too.
C24_Occupancy == Occupancy(bpc)

\* The occupancy in every state of the unclustered tree.
UnclusteredOccupancy == bpu.nodes # <<>> => Occupancy(bpu)

\* the root is an internal node without keys
RootWithoutKeys(t) ==
    /\ t.root \in 1..Len(t.nodes)
    /\ t.nodes[t.root].kind = "internal"
    /\ t.nodes[t.root].keys = <<>>

\* C25: after every delete on the clustered tree the root is never an
\* internal node with zero keys: the only child of such a root has become
\* the root.
C25_RootHeightReduced == last.op = "delete" => ~RootWithoutKeys(bpc)

\* The same after every delete on the unclustered tree.
UnclusteredRootHeightReduced ==
    last.op \in {"delete", "delete_all"} => ~RootWithoutKeys(bpu)

\* the tree is one leaf, which is the root, with n keys
SingleLeaf(t, n) ==
    /\ t.root \in 1..Len(t.nodes)
    /\ t.nodes[t.root].kind = "leaf"
    /\ Len(t.nodes[t.root].keys) = n
    /\ LeafIds(t) = {t.root}

\* the root is an internal node with one key over two leaves
SplitOnce(t) ==
    /\ t.root \in 1..Len(t.nodes)
    /\ t.nodes[t.root].kind = "internal"
    /\ Len(t.nodes[t.root].keys) = 1
    /\ Len(t.nodes[t.root].children) = 2
    /\ Cardinality(LeafIds(t)) = 2

\* C26: the insert of the (order - 1)-th key into the only leaf does not
\* split it, and the insert of the next key splits it once, into a root with
\* one key over two leaves.
C26_SplitBoundary ==
    [][/\ (SingleLeaf(bpc, bpc.order - 2) /\ SingleLeaf(bpc', bpc.order - 1))
          \/ ~(SingleLeaf(bpc, bpc.order - 2) /\ last'.op = "insert" /\ last'.data = TRUE)
       /\ (SingleLeaf(bpc, bpc.order - 1) /\ last'.op = "insert" /\ last'.data = TRUE)
              => SplitOnce(bpc')]_vars

\* the index records met along the leaf chain
ChainItems(t, walk) == Joined([i \in 1..Len(walk) |-> t.nodes[walk[i]].items])

\* a comes before b, or is b, in the order of (secondary value, primary key)
PairAtMost(a, b) == a.key < b.key \/ (a.key = b.key /\ a.pk <= b.pk)

PairsAscend(items) == \A i \in 1..(Len(items) - 1) : PairAtMost(items[i], items[i + 1])

\* C27: in every state of the unclustered tree the index records met along
\* the leaf chain are in non-decreasing order of (secondary value, primary
\* key).
C27_DuplicateOrdering ==
    bpu.nodes # <<>> => PairsAscend(ChainItems(bpu, ForwardWalk(bpu)))

(***************************************************************************)
(* Properties of the directory of the extendible hash.                     *)
(***************************************************************************)
DirIndexes(h) == 0..(Len(h.dir) - 1)

\* the directory indexes that point at bucket b
PointingAt(h, b) == {i \in DirIndexes(h) : DirAt(h, i) = b}

SameResidue(i, j, d) == i % (2 ^ d) = j % (2 ^ d)

LocalAt(h, b, d) ==
    /\ \A i \in PointingAt(h, b) : \A j \in PointingAt(h, b) : SameResidue(i, j, d)
    /\ \A i \in PointingAt(h, b) : \A j \in DirIndexes(h) :
           SameResidue(i, j, d) => DirAt(h, j) = b

Locality(h) ==
    \A b \in SetOf(h.dir) :
        h.buckets[b + 1].ld <= h.gd => LocalAt(h, b, h.buckets[b + 1].ld)

\* C28: in every state of the hash, the directory indexes that point at a
\* main bucket of local depth d agree on i mod 2^d, and no directory index
\* with that residue points at another bucket.
C28_HashLocality == Locality(eh)

\* The hash with one call more.
MaxLongCalls == 7

InitEHLong ==
    /\ eh = NewHash
    /\ calls = MaxCalls - MaxLongCalls
    /\ bpc = 0
    /\ bpu = 0
    /\ isam = 0
    /\ sf = 0
    /\ db = 0
    /\ perf = 0
    /\ live = {}
    /\ last = NoCall

SpecEHLong == InitEHLong /\ [][NextEH]_vars

\* the number of overflow buckets chained behind bucket pos
RECURSIVE OverflowCount(_, _, _)
OverflowCount(h, pos, fuel) ==
    IF fuel = 0 \/ h.buckets[pos + 1].next = NoBucket THEN 0
    ELSE 1 + OverflowCount(h, h.buckets[pos + 1].next, fuel - 1)

BoundedChains(h) ==
    \A b \in SetOf(h.dir) : OverflowCount(h, b, Len(h.buckets)) <= MAX_OVERFLOW

\* C29: after every insert, no main bucket of the hash has more than
\* MAX_OVERFLOW overflow buckets in its chain.
C29_BoundedOverflowChains == last.op = "insert" => BoundedChains(eh)

\* every bucket of the chain that starts at bucket pos holds BLOCK_FACTOR
\* records
RECURSIVE ChainFull(_, _, _)
ChainFull(h, pos, fuel) ==
    /\ Len(read_bucket(h, pos).records) = BLOCK_FACTOR
    /\ \/ fuel = 0
       \/ h.buckets[pos + 1].next = NoBucket
       \/ ChainFull(h, h.buckets[pos + 1].next, fuel - 1)

\* the case in which an insert of rec has to double the directory
MustDouble(h, rec) ==
    LET head == DirAt(h, _hash_key(rec.key) % Pow2(h.gd))
    IN  /\ ChainFull(h, head, Len(h.buckets))
        /\ h.buckets[head + 1].ld = h.gd
        /\ OverflowCount(h, head, Len(h.buckets)) >= MAX_OVERFLOW

\* C30: an insert raises global_depth by one when the chain of its bucket is
\* full, the local depth of the main bucket is the global depth and the
\* chain has MAX_OVERFLOW overflow buckets or more; every other insert
\* leaves global_depth as it was.
C30_DoublingBoundary ==
    [][(last'.op = "insert" /\ calls' = calls + 1) =>
          eh'.gd = eh.gd + (IF MustDouble(eh, last'.arg) THEN 1 ELSE 0)]_vars

(***************************************************************************)
(* Properties of the deletes of the extendible hash and of its free list.  *)
(***************************************************************************)
HeadOf(h, key) == DirAt(h, _hash_key(key) % Pow2(h.gd))

\* delete(e.key, e.pk) removes the last record of a main bucket without
\* overflow bucket
RemovesLastRecord(h, e) ==
    /\ h.buckets[HeadOf(h, e.key) + 1].next = NoBucket
    /\ read_bucket(h, HeadOf(h, e.key)).nr = 1
    /\ read_bucket(h, HeadOf(h, e.key)).records = <<e>>

\* the bucket the entries of bucket pos, of local depth ld, are redirected to
BuddyOf(h, pos, ld) ==
    LET first == CHOOSE i \in PointingAt(h, pos) : \A j \in PointingAt(h, pos) : i <= j
    IN  DirAt(h, IF BitOf(first, ld - 1) = 1 THEN first - 2 ^ (ld - 1)
                 ELSE first + 2 ^ (ld - 1))

Redirected(h, after, pos) ==
    \A i \in PointingAt(h, pos) :
        DirAt(after, i) = BuddyOf(h, pos, h.buckets[pos + 1].ld)

\* C31: a delete that removes the last record of a main bucket without
\* overflow bucket completes normally, leaves every directory entry of the
\* emptied bucket pointing at its buddy, and makes the emptied bucket the
\* head of the free list.
C31_EmptyBucketHandled ==
    [][(last'.op = "delete" /\ calls' = calls + 1 /\ RemovesLastRecord(eh, last'.arg)) =>
          /\ last'.raised = ""
          /\ Redirected(eh, eh', HeadOf(eh, last'.arg.key))
          /\ eh'.free = HeadOf(eh, last'.arg.key)]_vars

\* the buckets met from bucket pos on through the next link of the headers
RECURSIVE BucketsFrom(_, _, _)
BucketsFrom(h, pos, fuel) ==
    IF pos = NoBucket \/ fuel = 0 \/ pos >= Len(h.buckets) THEN {}
    ELSE {pos} \cup BucketsFrom(h, h.buckets[pos + 1].next, fuel - 1)

\* the free list: the chain that starts at first_free_bucket_pos
FreeBuckets(h) == BucketsFrom(h, h.free, Len(h.buckets))

\* the main buckets and the overflow buckets chained behind them
LiveBuckets(h) == UNION {BucketsFrom(h, b, Len(h.buckets)) : b \in SetOf(h.dir)}

\* C32: in every state of the hash no bucket of the free list is the target
\* of a directory entry or is reached through the next_overflow link of a
\* main or overflow bucket.
C32_FreeListDisjoint == FreeBuckets(eh) \cap LiveBuckets(eh) = {}

(***************************************************************************)
(* The free-list stack of the ISAM index used on its own: isam holds the   *)
(* free list file, live the page numbers pushed and not yet popped, the    *)
(* last pushed one last.                                                   *)
(***************************************************************************)
MaxFreePage == 3

MaxFreeCalls == 6

FreePages == 1..MaxFreePage

InitFreeList ==
    /\ isam = [fl |-> NoFreeList]
    /\ bpc = 0
    /\ bpu = 0
    /\ eh = 0
    /\ sf = 0
    /\ db = 0
    /\ perf = 0
    /\ calls = 0
    /\ live = <<>>
    /\ last = NoCall

FreeListPush(p) ==
    /\ calls < MaxFreeCalls
    /\ calls' = calls + 1
    /\ isam' = push_free_page(isam, p)
    /\ live' = Append(live, p)
    /\ last' = Call("push_free_page", p, [data |-> TRUE, raised |-> ""])
    /\ UNCHANGED <<perf, bpc, bpu, eh, sf, db>>

FreeListPop ==
    /\ calls < MaxFreeCalls
    /\ calls' = calls + 1
    /\ isam' = pop_free_page(isam).t
    /\ live' = IF live = <<>> THEN live ELSE SubSeq(live, 1, Len(live) - 1)
    /\ last' = Call("pop_free_page", 0, [data |-> pop_free_page(isam).page, raised |-> ""])
    /\ UNCHANGED <<perf, bpc, bpu, eh, sf, db>>

NextFreeList ==
    \/ \E p \in FreePages : FreeListPush(p)
    \/ FreeListPop

SpecFreeList == InitFreeList /\ [][NextFreeList]_vars

\* C33: pop_free_page returns the page number pushed last among those not
\* popped yet, and None (-1) when there is none.
C33_FreeListIsLIFO ==
    [][(last'.op = "pop_free_page" /\ calls' = calls + 1) =>
          last'.data = (IF live = <<>> THEN -1 ELSE live[Len(live)])]_vars

(***************************************************************************)
(* Properties of the free list and of the overflow chains of the ISAM      *)
(* index.                                                                  *)
(***************************************************************************)
\* the page numbers on the free list: the first count entries of the file
FreePageNumbers(t) ==
    IF t.fl.exists THEN {t.fl.items[i] : i \in 1..t.fl.count} ELSE {}

RecordCount(t, page_num) ==
    IF page_num < Len(t.pages) THEN Len(At(t.pages, page_num).records) ELSE 0

\* some page has page_num as its next_page
IsLinked(t, page_num) == \E i \in 1..Len(t.pages) : t.pages[i].next_page = page_num

\* some leaf index entry has page_num as its data page
IsAddressed(t, page_num) ==
    \E i \in 1..Len(t.leaves) :
        \E e \in 1..Len(t.leaves[i].entries) : t.leaves[i].entries[e].page = page_num

FreePagesEmptyAndUnlinked(t) ==
    \A p \in FreePageNumbers(t) :
        /\ RecordCount(t, p) = 0
        /\ ~IsAddressed(t, p)
        /\ ~IsLinked(t, p)

\* C34: in every state of the ISAM index each page number on the free list
\* is a data page without records that no leaf index entry addresses and
\* no next_page link leads to.
C34_FreePagesEmptyAndUnlinked == FreePagesEmptyAndUnlinked(isam)

\* the number of pages chained behind data page page_num
RECURSIVE OverflowPages(_, _, _)
OverflowPages(t, page_num, fuel) ==
    IF fuel = 0 \/ page_num >= Len(t.pages) \/ At(t.pages, page_num).next_page = -1 THEN 0
    ELSE 1 + OverflowPages(t, At(t.pages, page_num).next_page, fuel - 1)

\* the data pages the leaf index entries address
MainPages(t) ==
    UNION {{t.leaves[i].entries[e].page : e \in 1..Len(t.leaves[i].entries)}
              : i \in 1..Len(t.leaves)}

BoundedPageChains(t) ==
    \A m \in MainPages(t) : OverflowPages(t, m, Len(t.pages)) <= MAX_OVERFLOW

\* C35: after every insert no main data page of the ISAM index has an
\* overflow chain longer than MAX_OVERFLOW pages.
C35_BoundedPageChains == last.op = "insert" => BoundedPageChains(isam)

(* Properties of the rebuild of the ISAM index. *)
\* the main data pages that have an overflow chain
ChainedPages(t) == {m \in MainPages(t) : OverflowPages(t, m, Len(t.pages)) > 0}

RECURSIVE ChainTotal(_, _)
ChainTotal(t, mains) ==
    IF mains = {} THEN 0
    ELSE LET m == CHOOSE x \in mains : TRUE
         IN  OverflowPages(t, m, Len(t.pages)) + ChainTotal(t, mains \ {m})

\* free pages / total pages > 0.40
FreeRatioExceeded(t) == t.exists /\ _get_free_count(t) * 10 > 4 * Len(t.pages)

\* mean overflow pages per main page with a chain > 4.0
MeanChainExceeded(t) ==
    /\ t.exists
    /\ ChainedPages(t) # {}
    /\ ChainTotal(t, ChainedPages(t)) > 4 * Cardinality(ChainedPages(t))

\* C36: _should_rebuild() is true exactly when the ratio of free pages to
\* data pages exceeds 0.40 or the mean number of overflow pages per main page
\* with an overflow chain exceeds 4.0, also when the free list is empty.
C36_RebuildTrigger ==
    _should_rebuild(isam, 0) <=> (FreeRatioExceeded(isam) \/ MeanChainExceeded(isam))

(* rebuild called by the owner of the index, between inserts *)
MaxRebuildCalls == 7

InitISAMRebuild ==
    /\ isam = NewISAM(ISAM_BLOCK_FACTOR, LEAF_INDEX_BLOCK_FACTOR,
                      ROOT_INDEX_BLOCK_FACTOR, CONSOLIDATION_THRESHOLD)
    /\ bpc = 0
    /\ bpu = 0
    /\ eh = 0
    /\ sf = 0
    /\ db = 0
    /\ perf = 0
    /\ calls = MaxISAMCalls - MaxRebuildCalls
    /\ live = {}
    /\ last = NoCall

RebuildOutcome(t) == IF t.err # "" THEN Raised(t, t.err) ELSE Outcome(t, TRUE)

ISAMRebuild == ISAMReturn("rebuild", 0, RebuildOutcome(ISAM_rebuild(isam, 0)), live)

NextISAMRebuild ==
    \/ \E r \in ISAMRecords : ISAMInsert(r)
    \/ ISAMRebuild

SpecISAMRebuild == InitISAMRebuild /\ [][NextISAMRebuild]_vars

\* the records of every data page and the entries of every index page
PageLayout(t) == <<t.pages, t.leaves, t.root>>

\* C37: a rebuild that directly follows a rebuild leaves the data pages, the
\* leaf index pages and the root index page as the first rebuild left them.
C37_RebuildIdempotent ==
    [][(last.op = "rebuild" /\ last'.op = "rebuild" /\ calls' = calls + 1) =>
          PageLayout(isam') = PageLayout(isam)]_vars

(***************************************************************************)
(* The page writes of one insert of the ISAM index, in the order the code  *)
(* issues them: each operator below gives the files after every write of   *)
(* the strategy it is named after.                                         *)
(***************************************************************************)
SplitLeafWrites(t, leaf_page_num, overloaded_leaf_index) ==
    LET mid_point == Len(overloaded_leaf_index.entries) \div 2
        left_entries == SliceTo(overloaded_leaf_index.entries, mid_point)
        right_entries == SliceFrom(overloaded_leaf_index.entries, mid_point)
        new_leaf_page_num == Len(t.leaves)
        t1 == _write_leaf_index(t, leaf_page_num, LeafIndex(left_entries, new_leaf_page_num))
        t2 == _write_leaf_index(t1, new_leaf_page_num,
                                LeafIndex(right_entries, overloaded_leaf_index.next_page))
    IN  <<t1, t2, _update_root_index_with_new_page(t2, right_entries[1].key, new_leaf_page_num)>>

StoreLeafWrites(t, leaf_page_num, leaf_index) ==
    IF Len(leaf_index.entries) > t.lbf
    THEN SplitLeafWrites(t, leaf_page_num, leaf_index)
    ELSE <<_write_leaf_index(t, leaf_page_num, leaf_index)>>

\* the two data page writes that both split strategies start with
SplitDataWrites(t, page_num, page, new_record) ==
    LET all_records == SortByKey(Append(page.records, new_record))
        mid_point == Len(all_records) \div 2
        t1 == ISAM_write_page(t, page_num, Page(SliceTo(all_records, mid_point), -1))
    IN  <<t1, ISAM_write_page(t1, Len(t1.pages), Page(SliceFrom(all_records, mid_point), -1))>>

SplitPageWrites(t, page_num, page, new_record, leaf_page_num) ==
    LET all_records == SortByKey(Append(page.records, new_record))
        mid_point == Len(all_records) \div 2
        data == SplitDataWrites(t, page_num, page, new_record)
        leaf_index == _read_leaf_index(data[2], leaf_page_num)
        rekeyed == RekeyEntry(leaf_index.entries, page_num, all_records[1].key)
        entries == Index_insert_sorted(rekeyed, LeafIndexEntry(all_records[mid_point + 1].key,
                                                               Len(data[1].pages)))
    IN  data \o StoreLeafWrites(data[2], leaf_page_num, [leaf_index EXCEPT !.entries = entries])

SplitLeafIndexWrites(t, page_num, page, new_record, leaf_page_num) ==
    LET all_records == SortByKey(Append(page.records, new_record))
        mid_point == Len(all_records) \div 2
        data == SplitDataWrites(t, page_num, page, new_record)
        current_leaf_index == _read_leaf_index(data[2], leaf_page_num)
        entries == Index_insert_sorted(current_leaf_index.entries,
                                       LeafIndexEntry(all_records[mid_point + 1].key,
                                                      Len(data[1].pages)))
    IN  data \o StoreLeafWrites(data[2], leaf_page_num,
                                [current_leaf_index EXCEPT !.entries = entries])

OverflowWrites(t, page_num, new_record) ==
    LET f == _find_available_or_last_page_in_chain(t, page_num, {})
        page_found == ISAM_read_page(t, f.num)
        popped == pop_free_page(t)
        new_overflow_page_num == IF popped.page # -1 THEN popped.page ELSE Len(t.pages)
        t1 == ISAM_write_page(popped.t, new_overflow_page_num, Page(<<new_record>>, -1))
    IN  IF f.loops THEN <<>>
        ELSE IF ~f.need_new_page
        THEN IF Page_insert_sorted(page_found, new_record).dup THEN <<>>
             ELSE <<ISAM_write_page(t, f.num, Page_insert_sorted(page_found, new_record).page)>>
        ELSE <<t1, ISAM_write_page(t1, f.num,
                                   [page_found EXCEPT !.next_page = new_overflow_page_num])>>

PageOverflowWrites(t, page_num, page, new_record, current_leaf_page_num) ==
    IF Len(_read_leaf_index(t, current_leaf_page_num).entries) < t.lbf
    THEN SplitPageWrites(t, page_num, page, new_record, current_leaf_page_num)
    ELSE IF Len(t.root) < t.rbf
    THEN SplitLeafIndexWrites(t, page_num, page, new_record, current_leaf_page_num)
    ELSE OverflowWrites(t, page_num, new_record)

\* the files after each write of insert(record) when the target page is full
InsertWrites(t, record) ==
    IF ~t.exists \/ ISAM_search(t, record.key) # NoRecord THEN <<>>
    ELSE LET target_leaf_page_num == _find_target_leaf_page(t, record.key)
             target_data_page_num ==
                 _find_target_data_page(t, record.key, target_leaf_page_num)
             page == ISAM_read_page(t, target_data_page_num)
         IN  IF ~Page_is_full(t, page) THEN <<>>
             ELSE PageOverflowWrites(t, target_data_page_num, page, record,
                                     target_leaf_page_num)

\* the keys search finds
FoundKeys(t) == {k \in 1..MaxISAMKey : ISAM_search(t, k) # NoRecord}

\* every pointer of the index pages addresses a page that is written
PointersWritten(t) ==
    /\ \A i \in 1..Len(t.leaves) :
          /\ t.leaves[i].next_page < Len(t.leaves)
          /\ \A e \in 1..Len(t.leaves[i].entries) :
                t.leaves[i].entries[e].page < Len(t.pages)
    /\ \A e \in 1..Len(t.root) : t.root[e].page < Len(t.leaves)

SafeBetweenWrites(t, writes) ==
    \A i \in 1..(Len(writes) - 1) :
        /\ FoundKeys(t) \subseteq FoundKeys(writes[i])
        /\ PointersWritten(t) => PointersWritten(writes[i])

\* C38: between two page writes of one insert every record that search found
\* before the call is still found, and no index page points to a page that
\* is not written yet.
C38_WriteOrdering ==
    [][(last'.op = "insert" /\ calls' = calls + 1) =>
          SafeBetweenWrites(isam, InsertWrites(isam, Record(last'.arg, 1, 1)))]_vars

(***************************************************************************)
(* The writes of one insert of the extendible hash, in the order the code  *)
(* issues them.  Each write is named after what it stores: "header" is the *)
(* header of the directory file (global depth and head of the free list),  *)
(* "directory" directory entries, "bucket" a write to the bucket file.     *)
(***************************************************************************)
AppendWrites(h) ==
    (IF h.free = NoBucket THEN <<>> ELSE <<"header">>) \o <<"bucket", "bucket">>

RECURSIVE FreeChainWrites(_, _, _)
FreeChainWrites(h, next_pos, fuel) ==
    IF next_pos = NoBucket \/ fuel = 0 \/ h.err # "" THEN <<>>
    ELSE <<"bucket", "header">>
         \o FreeChainWrites(free_bucket(h, next_pos), h.buckets[next_pos + 1].next, fuel - 1)

PointerWrites(h, old_bucket_pos, new_local_depth) ==
    [n \in 1..Cardinality({i \in 1..Len(h.dir) :
                              h.dir[i] = old_bucket_pos
                              /\ BitOf(i - 1, new_local_depth - 1) = 1}) |-> "directory"]

RECURSIVE FillGroupWrites(_, _, _, _)
FillGroupWrites(h, bk, recs, i) ==
    IF i > Len(recs) THEN <<>>
    ELSE IF recs[i] \in SetOf(bk.records) THEN FillGroupWrites(h, bk, recs, i + 1)
    ELSE IF Len(bk.records) < BLOCK_FACTOR
    THEN FillGroupWrites(h, [bk EXCEPT !.records = Append(bk.records, recs[i]),
                                       !.nr = bk.nr + 1], recs, i + 1)
    ELSE IF bk.next = NoBucket
    THEN AppendWrites(h) \o <<"bucket">>
         \o FillGroupWrites(FillGroup(h, bk, recs, i).h, FillGroup(h, bk, recs, i).bk,
                            recs, Len(recs) + 1)
    ELSE FillGroupWrites(h, bk, recs, i + 1)

RECURSIVE FillGroupsWrites(_, _, _, _)
FillGroupsWrites(h, all, order, g) ==
    IF g > Len(order) THEN <<>>
    ELSE LET recs == SelectSeq(all, LAMBDA r :
                         DirAt(h, _hash_key(r.key) % Pow2(h.gd)) = order[g])
             r == FillGroup(h, read_bucket(h, order[g]), recs, 1)
         IN  FillGroupWrites(h, read_bucket(h, order[g]), recs, 1) \o <<"bucket">>
             \o FillGroupsWrites(write_bucket(r.h, r.bk, r.bk.pos), all, order, g + 1)

SplitBucketWrites(h, head_bucket, new_index_record) ==
    LET h0 == IF head_bucket.ld = h.gd THEN _double_directory(h) ELSE h
        all == Append(_get_all_records_from_bucket(h0, head_bucket), new_index_record)
        h1 == FreeChain(h0, head_bucket.next, Len(h0.buckets))
        new_local_depth == head_bucket.ld + 1
        h2 == [h1 EXCEPT !.buckets[head_bucket.pos + 1] =
                             DiskBucket(new_local_depth, 0, 0, NoBucket, EmptySlots)]
        a == _append_new_bucket(h2, new_local_depth)
        h3 == _update_directory_pointers(a.h, head_bucket.pos, a.pos, new_local_depth)
    IN  (IF head_bucket.ld = h.gd THEN <<"directory", "header">> ELSE <<>>)
        \o FreeChainWrites(h0, head_bucket.next, Len(h0.buckets))
        \o <<"bucket", "bucket">>
        \o AppendWrites(h2)
        \o PointerWrites(a.h, head_bucket.pos, new_local_depth)
        \o FillGroupsWrites(h3, all, GroupOrder(h3, all, 1, <<>>), 1)

HashInsertWrites(h, rec) ==
    LET head_bucket == _get_bucket_from_key(h, rec.key)
        w == InsertWalk(h, head_bucket, rec, 0, Len(h.buckets))
    IN  IF w.done THEN <<"bucket", "bucket">>
        ELSE IF head_bucket.ld < h.gd THEN SplitBucketWrites(h, head_bucket, rec)
        ELSE IF w.count < MAX_OVERFLOW
        THEN AppendWrites(h) \o <<"bucket">>
             \o (IF Bucket_insert(_add_overflow(_append_new_bucket(h, head_bucket.ld).h,
                                                w.last.pos,
                                                _append_new_bucket(h, head_bucket.ld).pos),
                                  read_bucket(_append_new_bucket(h, head_bucket.ld).h,
                                              _append_new_bucket(h, head_bucket.ld).pos),
                                  rec).ok
                 THEN <<"bucket", "bucket">> ELSE <<>>)
        ELSE <<"directory", "header">>
             \o SplitBucketWrites(_double_directory(h), head_bucket, rec)

\* the value of the header of the directory file
HashHeader(h) == <<h.gd, h.free>>

\* C39: in every insert of the extendible hash that changes the global depth
\* or the head of the free list, the write of the header of the directory
\* file is the last write of the call.
C39_MetadataWrittenLast ==
    [][(last'.op = "insert" /\ calls' = calls + 1 /\ HashHeader(eh') # HashHeader(eh)) =>
          Last(HashInsertWrites(eh, last'.arg)) = "header"]_vars

(***************************************************************************)
(* The ISAM index together with its PerformanceTracker.  search tracks one *)
(* read for the root index page, one for the leaf index page and one for   *)
(* every data page of the chain it reads.  The numbers of pages that       *)
(* insert reads and writes after its search are inputs of the insert.      *)
(***************************************************************************)
MaxTrackedCalls == 4

MaxAccesses == 2

\* the _read_page calls of _search_in_page_chain
RECURSIVE ChainReads(_, _, _, _)
ChainReads(t, current_page_num, key, visited) ==
    IF current_page_num = -1 \/ current_page_num \in visited
       \/ current_page_num >= Len(t.pages)
    THEN 0
    ELSE IF \E i \in 1..Len(ISAM_read_page(t, current_page_num).records) :
               ISAM_read_page(t, current_page_num).records[i].key = key
    THEN 1
    ELSE 1 + ChainReads(t, ISAM_read_page(t, current_page_num).next_page, key,
                        visited \cup {current_page_num})

SearchReads(t, key) ==
    IF ~t.exists THEN 0
    ELSE 2 + ChainReads(t, find_data_page_for_key(
                               _read_leaf_index(t, find_leaf_page_for_key(t.root, key)).entries,
                               key),
                        key, {})

RECURSIVE TrackReads(_, _)
TrackReads(p, n) == IF n = 0 THEN p ELSE TrackReads(track_read(p), n - 1)

RECURSIVE TrackWrites(_, _)
TrackWrites(p, n) == IF n = 0 THEN p ELSE TrackWrites(track_write(p), n - 1)

\* search from start_operation to end_operation: [t, data]
TrackedSearch(p, t, key) ==
    end_operation(TrackReads(start_operation(p), SearchReads(t, key)),
                  ISAM_search(t, key), FALSE)

\* insert: the tracker when the call ends; a duplicate key raises after the
\* search and any other error later, both before any end_operation
TrackedInsert(p, t, record, reads, writes) ==
    LET searched == TrackedSearch(start_operation(p), t, record.key)
    IN  IF searched.data.data # NoRecord THEN searched.t
        ELSE IF ISAM_insert(t, record).raised # ""
        THEN TrackWrites(TrackReads(searched.t, reads), writes)
        ELSE end_operation(TrackWrites(TrackReads(searched.t, reads), writes),
                           TRUE, ISAM_insert(t, record).t.rebuilt).t

InitISAMPerf ==
    /\ isam = NewISAM(ISAM_BLOCK_FACTOR, LEAF_INDEX_BLOCK_FACTOR,
                      ROOT_INDEX_BLOCK_FACTOR, CONSOLIDATION_THRESHOLD)
    /\ perf = NewTracker
    /\ bpc = 0
    /\ bpu = 0
    /\ eh = 0
    /\ sf = 0
    /\ db = 0
    /\ calls = MaxISAMCalls - MaxTrackedCalls
    /\ live = {}
    /\ last = NoCall

ISAMPerfReturn(op, arg, o, p, then) ==
    /\ calls < MaxISAMCalls
    /\ isam' = o.t
    /\ perf' = p
    /\ calls' = calls + 1
    /\ live' = IF o.raised = "" THEN then ELSE live
    /\ last' = Call(op, arg, o)
    /\ UNCHANGED <<bpc, bpu, eh, sf, db>>

ISAMPerfInsert(r, reads, writes) ==
    ISAMPerfReturn("insert", r.key, ISAM_insert(isam, r),
                   TrackedInsert(perf, isam, r, reads, writes), live \cup {r})

ISAMPerfSearch(k) ==
    ISAMPerfReturn("search", k, Outcome(isam, ISAM_search(isam, k)),
                   TrackedSearch(perf, isam, k).t, live)

NextISAMPerf ==
    \/ \E r \in ISAMRecords : \E reads \in 0..MaxAccesses : \E writes \in 1..MaxAccesses :
          ISAMPerfInsert(r, reads, writes)
    \/ \E k \in 1..MaxISAMKey : ISAMPerfSearch(k)

SpecISAMPerf == InitISAMPerf /\ [][NextISAMPerf]_vars

TrackerIdle(p) == p.start_time = 0 /\ p.operation_stack = <<>>

\* C40: after every insert or search of the ISAM index, whether it returned
\* or raised, the tracker has start_time = 0 and an empty operation_stack.
C40_TrackerIdle == last.op \in {"insert", "search"} => TrackerIdle(perf)

====
